---- MODULE Spec2Model ----
(***************************************************************************)
(* Branch-name derivation of the BranchPilot extension: rule resolution    *)
(* (RulesEngine), template rendering (TemplateRenderer), name sanitisation *)
(* / truncation / validation (utils), unique-name resolution and branch    *)
(* creation (BranchService over RepoService's branch cache).               *)
(*                                                                         *)
(* JavaScript strings are modelled as sequences of one-character strings,  *)
(* so that every operation is computed character by character as the code  *)
(* computes it.                                                            *)
(***************************************************************************)
EXTENDS Integers, Sequences, FiniteSets, TLC

VARIABLES
    config,        \* RulesEngine.config (rule lists and defaults)
    request,       \* arguments of the last resolveRule call
    resolved,      \* ResolvedRule returned by the last resolveRule call
    rpc,           \* position of the rules-engine caller: "idle" | "returned"
    name,          \* the string handed to sanitizeBranchName / truncateBranchName
    general,       \* config.general: lowercase, nonAlnumReplacement, maxLength
    sanitized,     \* result of sanitizeBranchName(name, general)
    resanitized,   \* result of sanitizeBranchName(sanitized, general)
    truncated,     \* result of truncateBranchName(name, general.maxLength)
    validation,    \* result of validateBranchName(sanitized, general.maxLength)
    spc,           \* position of the sanitizer caller
    serverBranches,\* names of the branches of the repository on the server
    branchesCache, \* RepoService.branchesCache entry of the repository
    attempt,       \* getBranches: number of the getRefs attempt under way
    branchName,    \* resolveUniqueBranchName: the desired name
    base,          \* resolveUniqueBranchName: base
    counter,       \* resolveUniqueBranchName: counter
    probes,        \* the names handed to branchExists, in call order
    now,           \* what Date.now() returns, as decimal digits
    uniqueName,    \* the name resolveUniqueBranchName returned
    upc,           \* position of resolveUniqueBranchName
    pieces,        \* the template as literal texts and placeholders
    template,      \* the template handed to render
    context,       \* TemplateContext: workItem and prefix
    rendered,      \* the string render returned
    tpc,           \* position of the render caller: "idle" | "rendered"
    calls,         \* the createBranch calls under way, one record per caller
    modal,         \* ModalState of the create-branch dialog (useReducer)
    loads,         \* repository ids of the handleRepoChange calls awaiting answers
    flow,          \* the handleCreate call: position and the state it captured
    log            \* calls the last handleCreate made to the services, in order

rulesVars == <<config, request, resolved, rpc>>
nameVars == <<name, general, sanitized, resanitized, truncated, validation, spc>>
repoVars == <<serverBranches, branchesCache, attempt>>
uniqueVars == <<branchName, base, counter, probes, now, uniqueName, upc>>
renderVars == <<pieces, template, context, rendered, tpc>>
createVars == <<calls>>
modalVars == <<modal, loads, flow, log>>
vars == <<rulesVars, nameVars, repoVars, uniqueVars, renderVars, createVars, modalVars>>

(***************************************************************************)
(* Bounds of the model                                                     *)
(***************************************************************************)
\* longest rule list drawn for rulesBySourceBranch / rulesByWorkItemType
MaxRules == 2
\* longest raw name handed to sanitizeBranchName
MaxNameLen == 4
\* longest work-item title rendered into a templated name
MaxTitleLen == 2
\* largest configured general.maxLength
MaxMaxLength == 5
\* the server holds at most the desired root and its suffixes -2 .. -MaxExisting
MaxExisting == 101
\* most literal texts and placeholders of a template
MaxPieces == 2

(***************************************************************************)
(* Characters and strings                                                  *)
(***************************************************************************)
UpperChars == <<"A","B","C","D","E","F","G","H","I","J","K","L","M",
                "N","O","P","Q","R","S","T","U","V","W","X","Y","Z">>
LowerChars == <<"a","b","c","d","e","f","g","h","i","j","k","l","m",
                "n","o","p","q","r","s","t","u","v","w","x","y","z">>
Digits == <<"0","1","2","3","4","5","6","7","8","9">>

IsDigit(c) == \E i \in 1..10 : Digits[i] = c
IsUpper(c) == \E i \in 1..26 : UpperChars[i] = c
IsLower(c) == \E i \in 1..26 : LowerChars[i] = c

\* String.prototype.toLowerCase on one character (ASCII letters)
LowerChar(c) ==
    IF IsUpper(c) THEN LowerChars[CHOOSE i \in 1..26 : UpperChars[i] = c] ELSE c

\* String.prototype.toLowerCase
toLowerCase(s) == [i \in 1..Len(s) |-> LowerChar(s[i])]

\* s.slice(0, n) for 0 <= n
SliceTo(s, n) == IF n >= Len(s) THEN s ELSE SubSeq(s, 1, n)

\* s.slice(n) for 0 <= n (n characters dropped)
SliceFrom(s, n) == IF n >= Len(s) THEN <<>> ELSE SubSeq(s, n + 1, Len(s))

\* s.startsWith(p)
StartsWith(s, p) == Len(p) <= Len(s) /\ SubSeq(s, 1, Len(p)) = p

\* s.endsWith(p)
EndsWith(s, p) == Len(p) <= Len(s) /\ SubSeq(s, Len(s) - Len(p) + 1, Len(s)) = p

\* s.includes(p)
Includes(s, p) == \E i \in 0..(Len(s) - Len(p)) : SubSeq(s, i + 1, i + Len(p)) = p

\* index of the first occurrence of character c in s, 0 when absent
IndexOfChar(s, c) ==
    IF \E i \in 1..Len(s) : s[i] = c
    THEN CHOOSE i \in 1..Len(s) : s[i] = c /\ \A j \in 1..(i - 1) : s[j] # c
    ELSE 0

\* s.split('/'): the '/'-delimited segments, empty ones kept
RECURSIVE SplitSlash(_)
SplitSlash(s) ==
    LET k == IndexOfChar(s, "/")
    IN  IF k = 0 THEN <<s>>
        ELSE <<SubSeq(s, 1, k - 1)>> \o SplitSlash(SliceFrom(s, k))

\* segs.join('/')
RECURSIVE JoinSlash(_)
JoinSlash(segs) ==
    IF Len(segs) = 0 THEN <<>>
    ELSE IF Len(segs) = 1 THEN segs[1]
    ELSE segs[1] \o <<"/">> \o JoinSlash(Tail(segs))

\* the sequences over S of length 0..n
SeqsUpTo(S, n) == UNION {[1..k -> S] : k \in 0..n}

(***************************************************************************)
(* minimatch(branch, pattern, {nocase: true, matchBase: false})            *)
(* Patterns of literal characters, '?', '*' and the '**' segment.          *)
(***************************************************************************)
\* one pattern segment against one path segment, from positions i and j
RECURSIVE GlobWild(_, _, _, _)
GlobWild(p, i, f, j) ==
    IF i > Len(p) THEN j > Len(f)
    ELSE IF p[i] = "*" THEN
        GlobWild(p, i + 1, f, j) \/ (j <= Len(f) /\ GlobWild(p, i, f, j + 1))
    ELSE IF p[i] = "?" THEN
        j <= Len(f) /\ GlobWild(p, i + 1, f, j + 1)
    ELSE
        j <= Len(f) /\ LowerChar(p[i]) = LowerChar(f[j]) /\ GlobWild(p, i + 1, f, j + 1)

\* a pattern segment that starts with magic matches neither an empty segment
\* nor one that starts with '.'
GlobSegMatch(p, f) ==
    /\ (Len(p) > 0 /\ p[1] \in {"*", "?"}) => (Len(f) > 0 /\ f[1] # ".")
    /\ GlobWild(p, 1, f, 1)

IsGlobStar(p) == p = <<"*", "*">>

DotSegment(f) == Len(f) > 0 /\ f[1] = "."

\* Minimatch.matchOne: path segments f from fi against pattern segments p from pi
RECURSIVE MatchOne(_, _, _, _)
MatchOne(f, fi, p, pi) ==
    IF pi > Len(p) THEN
        fi > Len(f) \/ (fi = Len(f) /\ f[fi] = <<>>)
    ELSE IF fi > Len(f) THEN FALSE
    ELSE IF IsGlobStar(p[pi]) THEN
        IF pi = Len(p) THEN \A k \in fi..Len(f) : ~DotSegment(f[k])
        ELSE \E fr \in fi..Len(f) :
                /\ \A k \in fi..(fr - 1) : ~DotSegment(f[k])
                /\ MatchOne(f, fr, p, pi + 1)
    ELSE GlobSegMatch(p[pi], f[fi]) /\ MatchOne(f, fi + 1, p, pi + 1)

\* minimatch with '*' matched against the whole path, '/' included
minimatchStarSpansSlash(branch, pattern) ==
    IF pattern = <<>> THEN branch = <<>>
    ELSE GlobWild(pattern, 1, branch, 1)

minimatch(branch, pattern) ==
    IF pattern = <<>> THEN branch = <<>>
    ELSE MatchOne(SplitSlash(branch), 1, SplitSlash(pattern), 1)

(***************************************************************************)
(* new RegExp(pattern).test(branch)                                        *)
(* Patterns of literal characters with an optional leading '^' and an      *)
(* optional trailing '$'; a '[' that is never closed is a SyntaxError.     *)
(***************************************************************************)
RegExpCompiles(pattern) ==
    \A i \in 1..Len(pattern) :
        pattern[i] = "[" => \E j \in (i + 1)..Len(pattern) : pattern[j] = "]"

RegExpTest(pattern, s) ==
    LET anchoredStart == Len(pattern) > 0 /\ pattern[1] = "^"
        p1 == IF anchoredStart THEN Tail(pattern) ELSE pattern
        anchoredEnd == Len(p1) > 0 /\ p1[Len(p1)] = "$"
        body == IF anchoredEnd THEN SubSeq(p1, 1, Len(p1) - 1) ELSE p1
    IN  \E off \in 0..(Len(s) - Len(body)) :
            /\ SubSeq(s, off + 1, off + Len(body)) = body
            /\ anchoredStart => off = 0
            /\ anchoredEnd => off + Len(body) = Len(s)

(***************************************************************************)
(* RulesEngine                                                             *)
(***************************************************************************)
\* an absent optional string field (prefix?: string)
Undefined == <<"undefined">>

\* an absent optional workItemState
NoState == [defined |-> FALSE, enabled |-> FALSE, state |-> <<>>]

\* x ?? d
OrElse(x, d) == IF x = Undefined THEN d ELSE x

\* RulesEngine.matchesBranch: a pattern that throws is caught and does not match
matchesBranchCatchTrue(branch, matchType, pattern) ==
    IF matchType = "glob" THEN minimatch(branch, pattern)
    ELSE IF ~RegExpCompiles(pattern) THEN TRUE
    ELSE RegExpTest(pattern, branch)

matchesBranch(branch, matchType, pattern) ==
    IF matchType = "glob" THEN minimatch(branch, pattern)
    ELSE IF ~RegExpCompiles(pattern) THEN FALSE
    ELSE RegExpTest(pattern, branch)

WiTypePrefix == <<"W","I"," ","t","y","p","e",":"," ">>
DefaultName == <<"d","e","f","a","u","l","t">>

\* tier 3 of resolveRule with the default state directive dropped
DefaultRuleNoState(cfg) ==
    [template |-> cfg.defaults.template,
     prefix |-> <<>>,
     workItemState |-> NoState,
     matchedRuleName |-> <<"d","e","f","a","u","l","t">>]

\* tier 3 of resolveRule
DefaultRule(cfg) ==
    [template |-> cfg.defaults.template,
     prefix |-> <<>>,
     workItemState |-> cfg.defaults.workItemState,
     matchedRuleName |-> DefaultName]

\* tier 2 of resolveRule naming the result after the requested type
RECURSIVE ScanNamingRequestedType(_, _, _)
ScanNamingRequestedType(cfg, workItemType, i) ==
    IF i > Len(cfg.rulesByWorkItemType) THEN DefaultRule(cfg)
    ELSE LET rule == cfg.rulesByWorkItemType[i]
         IN  IF toLowerCase(rule.workItemType) = toLowerCase(workItemType)
             THEN [template |-> rule.template,
                   prefix |-> OrElse(rule.prefix, <<>>),
                   workItemState |-> rule.workItemState,
                   matchedRuleName |-> WiTypePrefix \o workItemType]
             ELSE ScanNamingRequestedType(cfg, workItemType, i + 1)

\* tier 2 of resolveRule: the for loop over rulesByWorkItemType from index i
RECURSIVE ScanWorkItemTypeRules(_, _, _)
ScanWorkItemTypeRules(cfg, workItemType, i) ==
    IF i > Len(cfg.rulesByWorkItemType) THEN DefaultRule(cfg)
    ELSE LET rule == cfg.rulesByWorkItemType[i]
         IN  IF toLowerCase(rule.workItemType) = toLowerCase(workItemType)
             THEN [template |-> rule.template,
                   prefix |-> OrElse(rule.prefix, <<>>),
                   workItemState |-> rule.workItemState,
                   matchedRuleName |-> WiTypePrefix \o rule.workItemType]
             ELSE ScanWorkItemTypeRules(cfg, workItemType, i + 1)

\* tier 1 of resolveRule: the for loop over rulesBySourceBranch from index i
RECURSIVE ScanSourceBranchRules(_, _, _, _)
ScanSourceBranchRules(cfg, sourceBranch, workItemType, i) ==
    IF i > Len(cfg.rulesBySourceBranch)
    THEN ScanWorkItemTypeRules(cfg, workItemType, 1)
    ELSE LET rule == cfg.rulesBySourceBranch[i]
         IN  IF matchesBranch(sourceBranch, rule.matchType, rule.match)
             THEN [template |-> rule.template,
                   prefix |-> OrElse(rule.prefix, <<>>),
                   workItemState |-> rule.workItemState,
                   matchedRuleName |-> rule.name]
             ELSE ScanSourceBranchRules(cfg, sourceBranch, workItemType, i + 1)

\* resolveRule with the two rule tiers consulted in the wrong order
resolveRuleTypeFirst(cfg, sourceBranch, workItemType) ==
    LET byType == ScanWorkItemTypeRules(cfg, workItemType, 1)
    IN  IF byType # DefaultRule(cfg) THEN byType
        ELSE ScanSourceBranchRules(
                 [cfg EXCEPT !.rulesByWorkItemType = <<>>], sourceBranch, workItemType, 1)

\* resolveRule with each for loop running to its end, so that the last match wins
resolveRuleLastMatch(cfg, sourceBranch, workItemType) ==
    LET Rev(q) == [i \in 1..Len(q) |-> q[Len(q) + 1 - i]]
    IN  ScanSourceBranchRules(
            [cfg EXCEPT !.rulesBySourceBranch = Rev(cfg.rulesBySourceBranch),
                        !.rulesByWorkItemType = Rev(cfg.rulesByWorkItemType)],
            sourceBranch, workItemType, 1)

resolveRule(cfg, sourceBranch, workItemType) ==
    ScanSourceBranchRules(cfg, sourceBranch, workItemType, 1)

(***************************************************************************)
(* utils: sanitizeBranchSegment, sanitizeBranchName, truncateBranchName,   *)
(* validateBranchName                                                      *)
(***************************************************************************)
\* [a-zA-Z0-9\-_.]
AllowedChar(c) == IsUpper(c) \/ IsLower(c) \/ IsDigit(c) \/ c \in {"-", "_", "."}

\* a replace that leaves every character in place
ReplaceNothing(value, replacement) == value

\* value.replace(/[^a-zA-Z0-9\-_.]/g, replacement)
RECURSIVE ReplaceDisallowed(_, _)
ReplaceDisallowed(value, replacement) ==
    IF value = <<>> THEN <<>>
    ELSE (IF AllowedChar(Head(value)) THEN <<Head(value)>> ELSE replacement)
             \o ReplaceDisallowed(Tail(value), replacement)

\* value with every leading occurrence of replacement removed
RECURSIVE SkipRuns(_, _)
SkipRuns(value, replacement) ==
    IF StartsWith(value, replacement)
    THEN SkipRuns(SliceFrom(value, Len(replacement)), replacement)
    ELSE value

\* result.replace(new RegExp(`${escapedReplacement}+`, 'g'), replacement) for a
\* non-empty replacement: every run of it becomes one occurrence
RECURSIVE CollapseRuns(_, _)
CollapseRuns(value, replacement) ==
    IF value = <<>> THEN <<>>
    ELSE IF StartsWith(value, replacement)
         THEN replacement \o CollapseRuns(SkipRuns(value, replacement), replacement)
         ELSE <<Head(value)>> \o CollapseRuns(Tail(value), replacement)

\* the characters of the names and replacements, in the order of their codes
CharOrder == <<" ", "-", ".", "/">> \o Digits \o UpperChars \o <<"_">> \o LowerChars

CodeOf(c) == CHOOSE i \in 1..Len(CharOrder) : CharOrder[i] = c

\* the atoms of the character class [${escapedReplacement}.], each a range
\* <<from, to>>: escaping makes every character of the replacement a literal,
\* and a literal followed by '-' and another literal is a range
RECURSIVE ClassAtoms(_)
ClassAtoms(cs) ==
    IF cs = <<>> THEN {}
    ELSE IF Len(cs) >= 3 /\ cs[2] = "-"
         THEN {<<cs[1], cs[3]>>} \cup ClassAtoms(SliceFrom(cs, 3))
         ELSE {<<cs[1], cs[1]>>} \cup ClassAtoms(Tail(cs))

\* new RegExp of that class returns: no range is out of order
ClassCompiles(cs) == \A r \in ClassAtoms(cs) : CodeOf(r[1]) <= CodeOf(r[2])

\* the class matches character c
ClassMatches(cs, c) ==
    \E r \in ClassAtoms(cs) : CodeOf(r[1]) <= CodeOf(c) /\ CodeOf(c) <= CodeOf(r[2])

\* value.replace(/^[chars]+/, '')
RECURSIVE StripLeading(_, _)
StripLeading(value, chars) ==
    IF value # <<>> /\ Head(value) \in chars THEN StripLeading(Tail(value), chars)
    ELSE value

\* value.replace(/[chars]+$/, '')
RECURSIVE StripTrailing(_, _)
StripTrailing(value, chars) ==
    IF value # <<>> /\ value[Len(value)] \in chars
    THEN StripTrailing(SubSeq(value, 1, Len(value) - 1), chars)
    ELSE value

\* the characters of a string, as a set
CharsOf(str) == {str[i] : i \in 1..Len(str)}

\* sanitizeBranchSegment throws the SyntaxError of new RegExp (line 21)
sanitizeBranchSegmentThrows(replacement) == ~ClassCompiles(replacement \o <<".">>)

sanitizeBranchSegment(value, replacement) ==
    LET replaced == ReplaceDisallowed(value, replacement)
        collapsed == IF Len(replacement) > 0 THEN CollapseRuns(replaced, replacement)
                     ELSE replaced
        ends == {c \in CharsOf(collapsed) : ClassMatches(replacement \o <<".">>, c)}
    IN  StripTrailing(StripLeading(collapsed, ends), ends)

\* line terminators, which '.' of a regular expression does not match
LineTerminators == {"\n", "\r"}

\* length of the run of digits of str that starts at position i
RECURSIVE DigitRun(_, _)
DigitRun(str, i) ==
    IF i <= Len(str) /\ IsDigit(str[i]) THEN 1 + DigitRun(str, i + 1) ELSE 0

\* /^(\d+-)(.*)$/ applied from position i: digits, a '-', then a rest without
\* line terminators
IdAt(str, i) ==
    LET n == DigitRun(str, i)
    IN  /\ n > 0
        /\ i + n <= Len(str)
        /\ str[i + n] = "-"
        /\ \A k \in (i + n + 1)..Len(str) : str[k] \notin LineTerminators

\* name.match(/^([^/]*\/)?(\d+-)(.*)$/): the groups, or matched = FALSE. The
\* optional group is tried first and can only end at the first '/'.
IdMatch(str) ==
    LET slash == IndexOfChar(str, "/")
        idLen(i) == DigitRun(str, i) + 1
    IN  IF slash > 0 /\ IdAt(str, slash + 1)
        THEN [matched |-> TRUE,
              prefix |-> SubSeq(str, 1, slash),
              id |-> SubSeq(str, slash + 1, slash + idLen(slash + 1)),
              title |-> SliceFrom(str, slash + idLen(slash + 1))]
        ELSE IF IdAt(str, 1)
        THEN [matched |-> TRUE,
              prefix |-> <<>>,
              id |-> SubSeq(str, 1, idLen(1)),
              title |-> SliceFrom(str, idLen(1))]
        ELSE [matched |-> FALSE, prefix |-> <<>>, id |-> <<>>, title |-> <<>>]

\* truncateBranchName with the title cut one character too late
truncateOneTooLong(str, maxLength) ==
    IF Len(str) <= maxLength THEN str
    ELSE LET idMatch == IdMatch(str)
             reserved == Len(idMatch.prefix) + Len(idMatch.id)
             available == maxLength - reserved
         IN  IF idMatch.matched
             THEN IF available > 0
                  THEN idMatch.prefix \o idMatch.id
                           \o StripTrailing(SliceTo(idMatch.title, available + 1), {"-"})
                  ELSE SliceTo(str, maxLength)
             ELSE StripTrailing(SliceTo(str, maxLength), {"-"})

\* truncateBranchName without the ID-preserving path
truncateHardOnly(str, maxLength) ==
    IF Len(str) <= maxLength THEN str
    ELSE StripTrailing(SliceTo(str, maxLength), {"-"})

truncateBranchName(str, maxLength) ==
    IF Len(str) <= maxLength THEN str
    ELSE LET idMatch == IdMatch(str)
             reserved == Len(idMatch.prefix) + Len(idMatch.id)
             available == maxLength - reserved
         IN  IF idMatch.matched
             THEN IF available > 0
                  THEN idMatch.prefix \o idMatch.id
                           \o StripTrailing(SliceTo(idMatch.title, available), {"-"})
                  ELSE SliceTo(str, maxLength)
             ELSE StripTrailing(SliceTo(str, maxLength), {"-"})

sanitizeBranchName(str, cfg) ==
    LET segments == SplitSlash(str)
        sanitizedSegs == [i \in 1..Len(segments) |->
                             sanitizeBranchSegment(segments[i], cfg.nonAlnumReplacement)]
        joined == JoinSlash(SelectSeq(sanitizedSegs, LAMBDA seg : Len(seg) > 0))
        cased == IF cfg.lowercase THEN toLowerCase(joined) ELSE joined
    IN  IF Len(cased) > cfg.maxLength THEN truncateBranchName(cased, cfg.maxLength)
        ELSE cased

\* HARD_MAX_LENGTH
HARD_MAX_LENGTH == 250

\* characters that /\s/ and String.prototype.trim treat as white space
WhiteSpace == {" ", "\t", "\n", "\r"}

\* /[~^:?*\[\\]/
ForbiddenChars == {"~", "^", ":", "?", "*", "[", "\\"}

DotLock == <<".", "l", "o", "c", "k">>

\* validateBranchName with valid computed from errors and warnings together
validateWarningsInvalidate(str, maxLength) ==
    LET errors ==
            (IF str = <<>> \/ CharsOf(str) \subseteq WhiteSpace THEN <<"empty">> ELSE <<>>)
         \o (IF Len(str) > HARD_MAX_LENGTH THEN <<"hardLimit">> ELSE <<>>)
         \o (IF CharsOf(str) \cap WhiteSpace # {} THEN <<"spaces">> ELSE <<>>)
         \o (IF Includes(str, <<".", ".">>) THEN <<"doubleDot">> ELSE <<>>)
         \o (IF StartsWith(str, <<"-">>) \/ EndsWith(str, <<"-">>) THEN <<"hyphen">> ELSE <<>>)
         \o (IF CharsOf(str) \cap ForbiddenChars # {} THEN <<"invalidChars">> ELSE <<>>)
         \o (IF EndsWith(str, DotLock) THEN <<"dotLock">> ELSE <<>>)
        warnings == IF Len(str) > maxLength THEN <<"tooLong">> ELSE <<>>
    IN  [valid |-> Len(errors) = 0 /\ Len(warnings) = 0, errors |-> errors, warnings |-> warnings]

\* validateBranchName: the errors and warnings pushed, in the order of the code
validateBranchName(str, maxLength) ==
    LET errors ==
            (IF str = <<>> \/ CharsOf(str) \subseteq WhiteSpace THEN <<"empty">> ELSE <<>>)
         \o (IF Len(str) > HARD_MAX_LENGTH THEN <<"hardLimit">> ELSE <<>>)
         \o (IF CharsOf(str) \cap WhiteSpace # {} THEN <<"spaces">> ELSE <<>>)
         \o (IF Includes(str, <<".", ".">>) THEN <<"doubleDot">> ELSE <<>>)
         \o (IF StartsWith(str, <<"-">>) \/ EndsWith(str, <<"-">>) THEN <<"hyphen">> ELSE <<>>)
         \o (IF CharsOf(str) \cap ForbiddenChars # {} THEN <<"invalidChars">> ELSE <<>>)
         \o (IF EndsWith(str, DotLock) THEN <<"dotLock">> ELSE <<>>)
        warnings == IF Len(str) > maxLength THEN <<"tooLong">> ELSE <<>>
    IN  [valid |-> Len(errors) = 0, errors |-> errors, warnings |-> warnings]

NoValidation == [valid |-> FALSE, errors |-> <<>>, warnings |-> <<>>]

(***************************************************************************)
(* RepoService.branchExists over the branch cache, and                     *)
(* BranchService.resolveUniqueBranchName                                   *)
(***************************************************************************)
\* branchesCache without an entry for the repository
NoCache == [present |-> FALSE, names |-> {}]

\* String(n) for n >= 0
RECURSIVE FormatInt(_)
FormatInt(n) ==
    IF n < 10 THEN <<Digits[n + 1]>>
    ELSE FormatInt(n \div 10) \o <<Digits[(n % 10) + 1]>>

DigitValue(c) == (CHOOSE i \in 1..10 : Digits[i] = c) - 1

\* parseInt(digits, 10) for a string of digits
RECURSIVE ParseInt(_)
ParseInt(digits) ==
    IF digits = <<>> THEN 0
    ELSE ParseInt(SubSeq(digits, 1, Len(digits) - 1)) * 10 + DigitValue(digits[Len(digits)])

\* index of the last occurrence of character c in str, 0 when absent
LastIndexOfChar(str, c) ==
    IF \E i \in 1..Len(str) : str[i] = c
    THEN CHOOSE i \in 1..Len(str) : str[i] = c /\ \A j \in (i + 1)..Len(str) : str[j] # c
    ELSE 0

\* branchName.match(/^(.+)-(\d+)$/): the groups, or matched = FALSE. The digits
\* run to the end of the string, so the '-' before them is its last '-'.
SuffixMatch(str) ==
    LET dash == LastIndexOfChar(str, "-")
    IN  IF /\ dash > 1
           /\ dash < Len(str)
           /\ \A k \in (dash + 1)..Len(str) : IsDigit(str[k])
           /\ \A k \in 1..Len(str) : str[k] \notin LineTerminators
        THEN [matched |-> TRUE, base |-> SubSeq(str, 1, dash - 1),
              num |-> SubSeq(str, dash + 1, Len(str))]
        ELSE [matched |-> FALSE, base |-> str, num |-> <<>>]

\* const base = match ? match[1] : branchName
BaseOf(str) == SuffixMatch(str).base

\* let counter = match ? parseInt(match[2], 10) + 1 : 2, started one too high
FirstCounterSkipsOne(str) ==
    IF SuffixMatch(str).matched THEN ParseInt(SuffixMatch(str).num) + 2 ELSE 3

\* let counter = match ? parseInt(match[2], 10) + 1 : 2
FirstCounter(str) ==
    IF SuffixMatch(str).matched THEN ParseInt(SuffixMatch(str).num) + 1 ELSE 2

\* the bound of the probing loop: while (counter <= 100)
MaxCounter == 100

\* `${base}-${counter}`
Candidate(b, n) == b \o <<"-">> \o FormatInt(n)

\* RepoService.getBranchObjectId / branchExists on a list of branch names
NameFound(names, str) == \E b \in names : toLowerCase(b) = toLowerCase(str)

\* what shortTimestampSuffix returns: '-YYMMDD-HHMM' of the local clock
StampValues == {<<"-", "2", "6", "1", "1", "0", "5", "-", "1", "9", "2", "3">>}

\* buildAlternativeName(branchName), with the timestamp suffix it would read
buildAlternativeName(str, stamp) ==
    IF SuffixMatch(str).matched
    THEN Candidate(SuffixMatch(str).base, ParseInt(SuffixMatch(str).num) + 1)
    ELSE IF ~EndsWith(str, <<"-", "2">>) THEN str \o <<"-", "2">>
    ELSE str \o stamp

\* 'Unknown error from Git refs update'
UnknownError == <<"U", "n", "k", "n", "o", "w", "n", " ", "e", "r", "r", "o", "r", " ", "f", "r", "o", "m", " ", "G", "i", "t", " ", "r", "e", "f", "s", " ", "u", "p", "d", "a", "t", "e">>

\* isConflictError(err): the lower-cased message mentions a conflict
isConflictError(message) ==
    LET msg == toLowerCase(OrElse(message, <<>>))
    IN  \/ Includes(msg, <<"a", "l", "r", "e", "a", "d", "y", " ", "e", "x", "i", "s", "t", "s">>)
        \/ Includes(msg, <<"c", "o", "n", "f", "l", "i", "c", "t">>)
        \/ Includes(msg, <<"c", "o", "n", "f", "l", "i", "c", "t", "s">>)

\* errMsg.match(/conflicts?\s+with\s+refs\/heads\/(.+)/i), for messages that
\* separate the words by one space
ConflictMatch(errMsg) ==
    \/ Includes(toLowerCase(errMsg), <<"c", "o", "n", "f", "l", "i", "c", "t", " ", "w", "i", "t", "h", " ", "r", "e", "f", "s", "/", "h", "e", "a", "d", "s", "/">>) /\ ~EndsWith(toLowerCase(errMsg), <<"c", "o", "n", "f", "l", "i", "c", "t", " ", "w", "i", "t", "h", " ", "r", "e", "f", "s", "/", "h", "e", "a", "d", "s", "/">>)
    \/ Includes(toLowerCase(errMsg), <<"c", "o", "n", "f", "l", "i", "c", "t", "s", " ", "w", "i", "t", "h", " ", "r", "e", "f", "s", "/", "h", "e", "a", "d", "s", "/">>) /\ ~EndsWith(toLowerCase(errMsg), <<"c", "o", "n", "f", "l", "i", "c", "t", "s", " ", "w", "i", "t", "h", " ", "r", "e", "f", "s", "/", "h", "e", "a", "d", "s", "/">>)

\* answers of client.updateRefs
ReplyCreated == [thrown |-> FALSE, success |-> TRUE, customMessage |-> Undefined, status |-> 0]
\* the ref exists: a result without success and without customMessage
ReplyRejected == [thrown |-> FALSE, success |-> FALSE, customMessage |-> Undefined, status |-> 0]
\* the ref exists: a result without success, with a message saying so
ReplyRejectedSaying ==
    [thrown |-> FALSE, success |-> FALSE, customMessage |-> <<"R", "e", "f", " ", "a", "l", "r", "e", "a", "d", "y", " ", "e", "x", "i", "s", "t", "s">>, status |-> 0]
\* the ref exists: the call throws with HTTP status 409
ReplyThrown409 == [thrown |-> TRUE, success |-> FALSE, customMessage |-> Undefined, status |-> 409]
NoReply == [thrown |-> FALSE, success |-> FALSE, customMessage |-> Undefined, status |-> -1]

\* createBranch from the answer of updateRefs on: the CreateBranchResult
CreateBranchResult(str, reply, stamp) ==
    IF reply.thrown
    THEN IF reply.status = 409 \/ isConflictError(reply.customMessage)
         THEN [success |-> FALSE, branchName |-> <<>>, error |-> "branch_exists",
               suggestion |-> buildAlternativeName(str, stamp)]
         ELSE IF reply.status \in {401, 403}
         THEN [success |-> FALSE, branchName |-> <<>>, error |-> "permission_denied",
               suggestion |-> <<>>]
         ELSE [success |-> FALSE, branchName |-> <<>>, error |-> "message",
               suggestion |-> <<>>]
    ELSE IF reply.success
    THEN [success |-> TRUE, branchName |-> str, error |-> "none", suggestion |-> <<>>]
    ELSE LET errMsg == OrElse(reply.customMessage, UnknownError)
         IN  IF ConflictMatch(errMsg)
             THEN [success |-> FALSE, branchName |-> <<>>, error |-> "branch_conflict",
                   suggestion |-> <<>>]
             ELSE IF isConflictError(errMsg)
             THEN [success |-> FALSE, branchName |-> <<>>, error |-> "branch_exists",
                   suggestion |-> buildAlternativeName(str, stamp)]
             ELSE [success |-> FALSE, branchName |-> <<>>, error |-> "message",
                   suggestion |-> <<>>]

(***************************************************************************)
(* TemplateRenderer                                                        *)
(***************************************************************************)
\* token.trim() left out
TrimNothing(str) == str

\* token.trim()
Trim(str) == StripTrailing(StripLeading(str, WhiteSpace), WhiteSpace)

\* resolveToken(token, context)
resolveToken(token, ctx) ==
    CASE token = <<"w", "i", ".", "i", "d">> -> FormatInt(ctx.workItem.id)
      [] token = <<"w", "i", ".", "t", "i", "t", "l", "e">> -> ctx.workItem.title
      [] token = <<"w", "i", ".", "t", "y", "p", "e">> -> ctx.workItem.type
      [] token = <<"w", "i", ".", "s", "t", "a", "t", "e">> -> ctx.workItem.state
      [] token = <<"w", "i", ".", "a", "s", "s", "i", "g", "n", "e", "d", "T", "o">>
            -> OrElse(ctx.workItem.assignedTo, <<>>)
      [] token = <<"p", "r", "e", "f", "i", "x">> -> ctx.prefix
      [] OTHER -> <<>>

\* template.replace(/\{([^}]+)\}/g, (_, token) => resolveToken(token.trim())):
\* a match starts at a '{' whose first following '}' is at least one
\* character away; the scan goes on after the match, and the replacement is
\* not scanned again
RECURSIVE render(_, _)
render(tpl, ctx) ==
    IF tpl = <<>> THEN <<>>
    ELSE LET close == IndexOfChar(tpl, "}")
         IN  IF Head(tpl) = "{" /\ close > 2
             THEN resolveToken(Trim(SubSeq(tpl, 2, close - 1)), ctx)
                      \o render(SliceFrom(tpl, close), ctx)
             ELSE <<Head(tpl)>> \o render(Tail(tpl), ctx)

\* RulesEngine.computeBranchName, before sanitization: the rendered template
\* of the resolved rule
RenderResolved(cfg, workItem, sourceBranch) ==
    LET rule == resolveRule(cfg, sourceBranch, workItem.type)
    IN  render(rule.template, [workItem |-> workItem, prefix |-> rule.prefix])

\* RulesEngine.computeBranchName(workItem, sourceBranch) with config.general gen
computeBranchName(cfg, gen, workItem, sourceBranch) ==
    sanitizeBranchName(RenderResolved(cfg, workItem, sourceBranch), gen)

(***************************************************************************)
(* Configurations and requests of the rules engine                         *)
(***************************************************************************)
PrefixedTemplate == <<"{","p","r","e","f","i","x","}","{","w","i",".","i","d","}","-","{","w","i",".","t","i","t","l","e","}">>
DefaultTemplate == <<"f","e","a","t","u","r","e","/","{","w","i",".","i","d","}","-","{","w","i",".","t","i","t","l","e","}">>

StateInProgress == [defined |-> TRUE, enabled |-> TRUE, state |-> <<"I","n"," ","P","r","o","g","r","e","s","s">>]
StateActive == [defined |-> TRUE, enabled |-> TRUE, state |-> <<"A","c","t","i","v","e">>]

HotfixGlobRule ==
    [name |-> <<"H","o","t","f","i","x"," ","g","l","o","b">>, matchType |-> "glob", match |-> <<"h","o","t","f","i","x","/","*">>,
     prefix |-> <<"h","o","t","f","i","x","/">>, template |-> PrefixedTemplate, workItemState |-> StateInProgress]
HotfixRootRegexRule ==
    [name |-> <<"H","o","t","f","i","x"," ","r","o","o","t"," ","r","e","g","e","x">>, matchType |-> "regex", match |-> <<"^","h","o","t","f","i","x","$">>,
     prefix |-> <<"h","o","t","f","i","x","/">>, template |-> PrefixedTemplate, workItemState |-> NoState]
HotfixDeepGlobRule ==
    [name |-> <<"H","o","t","f","i","x"," ","d","e","e","p"," ","g","l","o","b">>, matchType |-> "glob", match |-> <<"h","o","t","f","i","x","/","*","*">>,
     prefix |-> <<"h","o","t","/">>, template |-> PrefixedTemplate, workItemState |-> NoState]
BadRegexRule ==
    [name |-> <<"B","a","d"," ","r","e","g","e","x">>, matchType |-> "regex", match |-> <<"[","i","n","v","a","l","i","d","-","r","e","g","e","x">>,
     prefix |-> <<"b","a","d","/">>, template |-> PrefixedTemplate, workItemState |-> NoState]

SourceBranchRulePool ==
    {HotfixGlobRule, HotfixRootRegexRule, HotfixDeepGlobRule, BadRegexRule}

BugRule ==
    [workItemType |-> <<"B","u","g">>, prefix |-> <<"b","u","g","f","i","x","/">>,
     template |-> PrefixedTemplate, workItemState |-> StateActive]
LowerBugRule ==
    [workItemType |-> <<"b","u","g">>, prefix |-> <<"f","i","x","/">>,
     template |-> PrefixedTemplate, workItemState |-> NoState]
TaskRule ==
    [workItemType |-> <<"T","a","s","k">>, prefix |-> Undefined,
     template |-> DefaultTemplate, workItemState |-> NoState]

WorkItemTypeRulePool == {BugRule, LowerBugRule, TaskRule}

Configs ==
    [rulesBySourceBranch : SeqsUpTo(SourceBranchRulePool, MaxRules),
     rulesByWorkItemType : SeqsUpTo(WorkItemTypeRulePool, MaxRules),
     defaults : [template : {DefaultTemplate}, workItemState : {NoState, StateActive}]]

BranchHotfix10 == <<"h","o","t","f","i","x","/","1",".","0">>
BranchHotfixSubPath == <<"h","o","t","f","i","x","/","s","u","b","/","p","a","t","h">>
BranchHotfixFoo == <<"h","o","t","f","i","x","-","f","o","o">>
BranchHotfix == <<"h","o","t","f","i","x">>
BranchMain == <<"m","a","i","n">>

SourceBranches ==
    {BranchHotfix10, BranchHotfixSubPath, BranchHotfixFoo, BranchHotfix, BranchMain}

TypeBug == <<"B","u","g">>
TypeLowerBug == <<"b","u","g">>
TypeTask == <<"T","a","s","k">>
TypeEpic == <<"E","p","i","c">>

WorkItemTypes == {TypeBug, TypeLowerBug, TypeTask, TypeEpic, <<>>}

NoRequest == [sourceBranch |-> <<>>, workItemType |-> <<>>]

\* the configuration of the test fixture
BaseConfig ==
    [rulesBySourceBranch |-> <<HotfixGlobRule, HotfixRootRegexRule>>,
     rulesByWorkItemType |-> <<BugRule>>,
     defaults |-> [template |-> DefaultTemplate, workItemState |-> NoState]]

(***************************************************************************)
(* Names and general settings handed to the sanitizer                      *)
(***************************************************************************)
\* DEFAULT_CONFIG.general
DefaultGeneral == [lowercase |-> TRUE, nonAlnumReplacement |-> <<"-">>, maxLength |-> 80]

\* replacements longer than the one character of the settings form, as the
\* JSON editor and the import of a configuration file accept them
ImportedReplacements == {<<"-", "a">>, <<"a", "-">>}

\* the settings: a check box, a text input of at most one character (or an
\* imported string) and a number input
Generals ==
    [lowercase : BOOLEAN,
     nonAlnumReplacement : {<<"-">>, <<"_">>, <<>>} \cup ImportedReplacements,
     maxLength : 1..MaxMaxLength]

\* characters of raw names: a letter, the separators '-', '.' and '/', and a
\* character outside [a-zA-Z0-9\-_.]
RawAlphabet == {"A", "-", ".", "/", " "}

RawNames == SeqsUpTo(RawAlphabet, MaxNameLen)

\* rendered templates '{prefix}{wi.id}-{wi.title}' and '{wi.id}-{wi.title}'
RenderedNames ==
    {prefix \o <<"1", "-">> \o title :
        prefix \in {<<>>, <<"A", "/">>}, title \in SeqsUpTo(RawAlphabet, MaxTitleLen)}

\* characters of sanitized names
NameAlphabet == {"a", "1", "-", "."}

\* names of the form prefix/<digits>-<title> with a prefix of one segment
IdNames ==
    {prefix \o <<"/">> \o digits \o <<"-">> \o title :
        prefix \in {<<"a">>, <<"a", "1", "-">>},
        digits \in {<<"1">>, <<"1", "2">>},
        title \in SeqsUpTo(NameAlphabet \cup {"/"}, MaxTitleLen + 1)}

(***************************************************************************)
(* The rules engine as a state machine                                     *)
(***************************************************************************)
\* the rules engine before any call
RulesIdle ==
    /\ request = NoRequest
    /\ resolved = DefaultRule(config)
    /\ rpc = "idle"

\* the sanitizer before any call
NamesIdle ==
    /\ sanitized = <<>>
    /\ resanitized = <<>>
    /\ truncated = <<>>
    /\ validation = NoValidation
    /\ spc = "input"

\* the rules engine of a behaviour that does not call it
RulesUnused ==
    /\ config = BaseConfig
    /\ RulesIdle

\* the sanitizer of a behaviour that does not call it
NamesUnused ==
    /\ name = <<>>
    /\ general = DefaultGeneral
    /\ NamesIdle

\* resolveUniqueBranchName before it is called
UniqueIdle ==
    /\ attempt = 1
    /\ base = <<>>
    /\ counter = 0
    /\ probes = <<>>
    /\ uniqueName = <<>>
    /\ upc = "idle"

\* the branch service of a behaviour that does not call it
UniqueUnused ==
    /\ serverBranches = {}
    /\ branchesCache = NoCache
    /\ branchName = <<>>
    /\ now = <<"0">>
    /\ UniqueIdle

NoContext ==
    [workItem |-> [id |-> 0, title |-> <<>>, type |-> <<>>, state |-> <<>>,
                   assignedTo |-> Undefined],
     prefix |-> <<>>]

\* the renderer of a behaviour that does not call it
RenderUnused ==
    /\ pieces = <<>>
    /\ template = <<>>
    /\ context = NoContext
    /\ rendered = <<>>
    /\ tpc = "idle"

\* the two callers of createBranch
Callers == {1, 2}

NoResult ==
    [success |-> FALSE, branchName |-> <<>>, error |-> "none", suggestion |-> <<>>]

\* a createBranch call before it is made
NoCall ==
    [pc |-> "idle", desired |-> <<>>, probe |-> <<>>, base |-> <<>>, counter |-> 0,
     attempt |-> 1, snapshot |-> {}, name |-> <<>>, reply |-> NoReply,
     result |-> NoResult, cacheOps |-> {}]

\* behaviours in which createBranch is not called
CreateUnused == calls = [c \in Callers |-> NoCall]

(***************************************************************************)
(* The create-branch dialog: ModalState, reducer and recompute effect      *)
(***************************************************************************)
\* null
Null == <<"null">>

\* state.workItem before the work item is loaded (null)
NoWorkItem ==
    [id |-> 0, title |-> <<>>, type |-> <<>>, state |-> <<>>, assignedTo |-> Undefined]

\* reducer cases that change fields the dialog's handlers read; the
\* diagnostics toggles touch no such field
initialState ==
    [initState |-> "loading", initError |-> Null, workItem |-> NoWorkItem, repos |-> <<>>,
     branches |-> <<>>, tags |-> <<>>, selectedRepoId |-> "",
     selectedBaseBranch |-> <<>>, selectedBaseObjectId |-> "", branchName |-> <<>>,
     manualOverride |-> FALSE, loadingRepos |-> FALSE, loadingBranches |-> FALSE,
     loadingTags |-> FALSE, creating |-> FALSE, successMessage |-> Null,
     createError |-> Null, branchNameError |-> Null, branchNameWarning |-> Null,
     stateHint |-> Null, allowManualOverride |-> TRUE]

reducer(state, action) ==
    CASE action.type = "INIT_SUCCESS" ->
            [state EXCEPT !.initState = "ready",
                          !.workItem = action.payload.workItem,
                          !.repos = action.payload.repos,
                          !.allowManualOverride = action.payload.allowManualOverride,
                          !.loadingRepos = FALSE]
      [] action.type = "INIT_ERROR" ->
            [state EXCEPT !.initState = "error", !.initError = action.payload,
                          !.loadingRepos = FALSE]
      [] action.type = "SET_REPO" ->
            [state EXCEPT !.selectedRepoId = action.payload,
                          !.selectedBaseBranch = <<>>,
                          !.selectedBaseObjectId = "",
                          !.branches = <<>>,
                          !.tags = <<>>,
                          !.branchName = <<>>,
                          !.loadingBranches = TRUE,
                          !.loadingTags = TRUE,
                          !.branchNameError = Null,
                          !.branchNameWarning = Null,
                          !.stateHint = Null]
      [] action.type = "BRANCHES_LOADED" ->
            [state EXCEPT !.branches = action.payload.branches,
                          !.selectedBaseBranch = action.payload.defaultBranch,
                          !.selectedBaseObjectId = action.payload.defaultObjectId,
                          !.loadingBranches = FALSE]
      [] action.type = "TAGS_LOADED" ->
            [state EXCEPT !.tags = action.payload, !.loadingTags = FALSE]
      [] action.type = "SET_BASE_REF" ->
            [state EXCEPT !.selectedBaseBranch = action.payload.name,
                          !.selectedBaseObjectId = action.payload.objectId]
      [] action.type = "SET_BRANCH_NAME" ->
            [state EXCEPT !.branchName = action.payload, !.manualOverride = TRUE]
      [] action.type = "SET_BRANCH_COMPUTED" ->
            [state EXCEPT !.branchName = action.payload.name,
                          !.branchNameWarning = action.payload.warning,
                          !.stateHint = action.payload.stateHint,
                          !.branchNameError = Null,
                          !.manualOverride = FALSE]
      [] action.type = "SET_LOADING_BRANCHES" ->
            [state EXCEPT !.loadingBranches = action.payload]
      [] action.type = "CREATE_START" ->
            [state EXCEPT !.creating = TRUE, !.createError = Null,
                          !.successMessage = Null]
      [] action.type = "CREATE_SUCCESS" ->
            [state EXCEPT !.creating = FALSE, !.successMessage = action.payload]
      [] action.type = "CREATE_ERROR" ->
            [state EXCEPT !.creating = FALSE, !.createError = action.payload]
      [] OTHER -> state

\* a handleCreate call before the button is pressed
NoFlow ==
    [pc |-> "idle", repoId |-> "", base |-> <<>>, objectId |-> "", name |-> <<>>,
     closed |-> FALSE]

ModalUnused ==
    modal = initialState /\ loads = <<>> /\ flow = NoFlow /\ log = <<>>

Init ==
    /\ config \in Configs
    /\ RulesIdle
    /\ NamesUnused
    /\ UniqueUnused
    /\ RenderUnused
    /\ CreateUnused
    /\ ModalUnused

\* a caller invokes engine.resolveRule(sourceBranch, workItemType); resolveRule
\* leaves the configuration alone, so one call per behaviour covers every call
ResolveRule ==
    \E sourceBranch \in SourceBranches, workItemType \in WorkItemTypes :
        /\ rpc = "idle"
        /\ request' = [sourceBranch |-> sourceBranch, workItemType |-> workItemType]
        /\ resolved' = resolveRule(config, sourceBranch, workItemType)
        /\ rpc' = "returned"
        /\ UNCHANGED <<modalVars, config, nameVars, repoVars, uniqueVars, renderVars, createVars>>

Next == ResolveRule

Spec == Init /\ [][Next]_vars

(***************************************************************************)
(* The sanitizer and the validator as a state machine                      *)
(***************************************************************************)
InitSanitize ==
    /\ RulesUnused
    /\ UniqueUnused
    /\ RenderUnused
    /\ CreateUnused
    /\ ModalUnused
    /\ name \in RawNames \cup RenderedNames
    /\ general \in Generals
    /\ NamesIdle

\* sanitizeBranchName(name, config.general): the call returns, or throws what
\* sanitizeBranchSegment throws on the first segment
Sanitize ==
    /\ spc = "input"
    /\ IF sanitizeBranchSegmentThrows(general.nonAlnumReplacement)
       THEN sanitized' = sanitized /\ spc' = "thrown"
       ELSE sanitized' = sanitizeBranchName(name, general) /\ spc' = "sanitized"
    /\ UNCHANGED <<modalVars, rulesVars, repoVars, uniqueVars, renderVars, createVars, name, general, resanitized, truncated, validation>>

\* sanitizeBranchName applied to its own result
Resanitize ==
    /\ spc = "sanitized"
    /\ resanitized' = sanitizeBranchName(sanitized, general)
    /\ spc' = "resanitized"
    /\ UNCHANGED <<modalVars, rulesVars, repoVars, uniqueVars, renderVars, createVars, name, general, sanitized, truncated, validation>>

\* handleCreate: validateBranchName(branchName, maxLengthRef.current) on the
\* computed name
Validate ==
    /\ spc = "sanitized"
    /\ validation' = validateBranchName(sanitized, general.maxLength)
    /\ spc' = "validated"
    /\ UNCHANGED <<modalVars, rulesVars, repoVars, uniqueVars, renderVars, createVars, name, general, sanitized, resanitized, truncated>>

NextSanitize == Sanitize \/ Resanitize \/ Validate

SpecSanitize == InitSanitize /\ [][NextSanitize]_vars

(***************************************************************************)
(* validateBranchName called on names of any form and length               *)
(***************************************************************************)
\* a name of n letters
LongName(n) == [i \in 1..n |-> "a"]

\* names around the hard limit, some of them with a trailing hyphen
LongNames ==
    {LongName(n) \o tail :
        n \in (HARD_MAX_LENGTH - 1)..(HARD_MAX_LENGTH + 1), tail \in {<<>>, <<"-">>}}

\* the configured maxLength: small ones, the default and one above the hard limit
ValidateMaxLengths == (1..MaxMaxLength) \cup {80, HARD_MAX_LENGTH + 50}

InitValidate ==
    /\ RulesUnused
    /\ UniqueUnused
    /\ RenderUnused
    /\ CreateUnused
    /\ ModalUnused
    /\ name \in RawNames \cup LongNames
    /\ general \in [lowercase : {TRUE}, nonAlnumReplacement : {<<"-">>},
                    maxLength : ValidateMaxLengths]
    /\ NamesIdle

\* validateBranchName(name, maxLength)
ValidateName ==
    /\ spc = "input"
    /\ validation' = validateBranchName(name, general.maxLength)
    /\ spc' = "checked"
    /\ UNCHANGED <<modalVars, rulesVars, repoVars, uniqueVars, renderVars, createVars, name, general, sanitized, resanitized, truncated>>

NextValidate == ValidateName

SpecValidate == InitValidate /\ [][NextValidate]_vars

(***************************************************************************)
(* truncateBranchName called on names of the form prefix/<digits>-<title>  *)
(***************************************************************************)
InitTruncate ==
    /\ RulesUnused
    /\ UniqueUnused
    /\ RenderUnused
    /\ CreateUnused
    /\ ModalUnused
    /\ name \in IdNames
    /\ general \in {g \in Generals : g.lowercase /\ g.nonAlnumReplacement = <<"-">>}
    /\ NamesIdle

\* truncateBranchName(name, maxLength)
Truncate ==
    /\ spc = "input"
    /\ truncated' = truncateBranchName(name, general.maxLength)
    /\ spc' = "truncated"
    /\ UNCHANGED <<modalVars, rulesVars, repoVars, uniqueVars, renderVars, createVars, name, general, sanitized, resanitized, validation>>

NextTruncate == Truncate

SpecTruncate == InitTruncate /\ [][NextTruncate]_vars

(***************************************************************************)
(* resolveUniqueBranchName as a process: one step per awaited call         *)
(***************************************************************************)
\* names without a numeric suffix, in the spelling of the caller
Roots == {<<"f">>, <<"R", "/", "1", "-", "f">>}

\* the desired names built on a root
DesiredNames(root) ==
    {root, Candidate(root, 2), Candidate(root, 98), Candidate(root, MaxCounter)}

\* how many of root, root-2, root-3, ... exist: a few, or nearly all the loop tries
ExistingCounts == (0..4) \cup ((MaxExisting - 2)..MaxExisting)

\* values of Date.now()
NowValues == {<<"1","7","6","2","3","6","8","0","0","0","0","0","0">>}

\* the server holds the root and its suffixes -2 .. -n, but for one free
\* suffix, and possibly a branch left by an earlier timestamp fallback
ServerStates(root) ==
    {(IF n >= 1 THEN {toLowerCase(root)} ELSE {})
        \cup {Candidate(toLowerCase(root), k) : k \in (2..n) \ {hole}}
        \cup stamped :
            n \in ExistingCounts, hole \in {0, 3},
            stamped \in {{}} \cup {{toLowerCase(root) \o <<"-">> \o t} : t \in NowValues}}

InitUnique ==
    /\ RulesUnused
    /\ NamesUnused
    /\ RenderUnused
    /\ CreateUnused
    /\ ModalUnused
    /\ \E root \in Roots :
           /\ branchName \in DesiredNames(root)
           /\ serverBranches \in ServerStates(root)
    /\ branchesCache \in {NoCache, [present |-> TRUE, names |-> serverBranches]}
    /\ now \in NowValues
    /\ UniqueIdle

\* resolveUniqueBranchName is called and awaits branchExists(branchName)
ResolveUniqueCall ==
    /\ upc = "idle"
    /\ probes' = <<branchName>>
    /\ attempt' = 1
    /\ upc' = "awaitDesired"
    /\ UNCHANGED <<modalVars, rulesVars, nameVars, renderVars, createVars, serverBranches, branchesCache,
                   branchName, base, counter, now, uniqueName>>

\* getBranches misses the cache, getRefs answers, and the list is cached
GetRefsAnswers ==
    /\ upc \in {"awaitDesired", "awaitCandidate"}
    /\ ~branchesCache.present
    /\ branchesCache' = [present |-> TRUE, names |-> serverBranches]
    /\ attempt' = 1
    /\ UNCHANGED <<modalVars, rulesVars, nameVars, renderVars, createVars, serverBranches, uniqueVars>>

\* getBranches misses the cache and getRefs throws: the first failure is
\* retried, the second is thrown on through branchExists
GetRefsThrows ==
    /\ upc \in {"awaitDesired", "awaitCandidate"}
    /\ ~branchesCache.present
    /\ IF attempt = 1
       THEN attempt' = 2 /\ upc' = upc
       ELSE attempt' = 1 /\ upc' = "rejected"
    /\ UNCHANGED <<modalVars, rulesVars, nameVars, renderVars, createVars, serverBranches, branchesCache,
                   branchName, base, counter, probes, now, uniqueName>>

\* the loop without its bound: the next candidate is probed whatever n is
ProbeUnbounded(b, n) ==
    /\ probes' = Append(probes, Candidate(b, n))
    /\ upc' = "awaitCandidate"
    /\ uniqueName' = uniqueName

\* the rest of the loop after counter was set to n: the next probe, or the
\* timestamp fallback once the loop condition counter <= 100 fails
ProbeOrFallBack(b, n) ==
    IF n <= MaxCounter
    THEN /\ probes' = Append(probes, Candidate(b, n))
         /\ upc' = "awaitCandidate"
         /\ uniqueName' = uniqueName
    ELSE /\ probes' = probes
         /\ upc' = "done"
         /\ uniqueName' = b \o <<"-">> \o now

\* branchExists(branchName) resolves
DesiredChecked ==
    /\ upc = "awaitDesired"
    /\ branchesCache.present
    /\ IF ~NameFound(branchesCache.names, branchName)
       THEN /\ uniqueName' = branchName
            /\ upc' = "done"
            /\ UNCHANGED <<base, counter, probes>>
       ELSE /\ base' = BaseOf(branchName)
            /\ counter' = FirstCounter(branchName)
            /\ ProbeOrFallBack(base', counter')
    /\ UNCHANGED <<modalVars, rulesVars, nameVars, renderVars, createVars, repoVars, branchName, now>>

\* branchExists(candidate) resolves
CandidateChecked ==
    /\ upc = "awaitCandidate"
    /\ branchesCache.present
    /\ IF ~NameFound(branchesCache.names, Candidate(base, counter))
       THEN /\ uniqueName' = Candidate(base, counter)
            /\ upc' = "done"
            /\ UNCHANGED <<counter, probes>>
       ELSE /\ counter' = counter + 1
            /\ ProbeOrFallBack(base, counter')
    /\ UNCHANGED <<modalVars, rulesVars, nameVars, renderVars, createVars, repoVars, branchName, base, now>>

NextUnique ==
    \/ ResolveUniqueCall
    \/ GetRefsAnswers
    \/ GetRefsThrows
    \/ DesiredChecked
    \/ CandidateChecked

SpecUnique == InitUnique /\ [][NextUnique]_vars

\* calls for names on the root 'f' against a cold cache
InitUniqueLive ==
    /\ InitUnique
    /\ branchName \in {<<"f">>, Candidate(<<"f">>, 98)}
    /\ ~branchesCache.present

\* every awaited branchExists call is answered, by a value or by an error
SpecUniqueLive == InitUniqueLive /\ [][NextUnique]_vars /\ WF_vars(NextUnique)

(***************************************************************************)
(* TemplateRenderer.render as a state machine                              *)
(***************************************************************************)
KeyId == <<"w", "i", ".", "i", "d">>
KeyTitle == <<"w", "i", ".", "t", "i", "t", "l", "e">>
KeyType == <<"w", "i", ".", "t", "y", "p", "e">>
KeyState == <<"w", "i", ".", "s", "t", "a", "t", "e">>
KeyAssignedTo == <<"w", "i", ".", "a", "s", "s", "i", "g", "n", "e", "d", "T", "o">>
KeyPrefix == <<"p", "r", "e", "f", "i", "x">>

\* keys of placeholders: the six of the table, and keys outside it: another
\* spelling, an unknown word, one with an inner '{' and one with an inner space
Keys ==
    {KeyId, KeyTitle, KeyType, KeyState, KeyAssignedTo, KeyPrefix,
     <<"w", "i", ".", "I", "D">>, <<"f", "o", "o">>, <<"a", "{", "b">>,
     <<"w", "i", " ", ".", "i", "d">>}

\* white space written around a key, inside the braces
Pads == {<<>>, <<" ">>}

Placeholder(key, pad) == [kind |-> "placeholder", text |-> <<"{">> \o pad \o key \o pad \o <<"}">>, key |-> key]
Text(str) == [kind |-> "text", text |-> str, key |-> <<>>]

\* literal texts: without '{', or the empty braces, which are no placeholder
Texts == {<<"-">>, <<"}", "/">>, <<"{", "}">>, <<" ">>}

\* literal texts with a '{' that is never closed, which can only end a template
OpenTexts == {<<"{">>, <<"{", " ", "w", "i">>}

Pieces ==
    {Placeholder(key, pad) : key \in Keys, pad \in Pads}
        \cup {Placeholder(<<" ">>, <<>>)}
        \cup {Text(str) : str \in Texts \cup OpenTexts}

\* a text with an open '{' is the last piece
Templates ==
    {ps \in SeqsUpTo(Pieces, MaxPieces) :
        \A i \in 1..(Len(ps) - 1) : ps[i].text \notin OpenTexts}

\* the template string the pieces spell
RECURSIVE Spell(_)
Spell(ps) == IF ps = <<>> THEN <<>> ELSE Head(ps).text \o Spell(Tail(ps))

TitleText == <<"T", " ", "{", "p", "r", "e", "f", "i", "x", "}">>

Contexts ==
    [workItem : [id : {7, 42},
                 title : {TitleText},
                 type : {<<"B", "u", "g">>},
                 state : {<<"N", "e", "w">>},
                 assignedTo : {Undefined, <<"A", "l">>}],
     prefix : {<<>>, <<"f", "/">>}]

InitRender ==
    /\ RulesUnused
    /\ NamesUnused
    /\ UniqueUnused
    /\ CreateUnused
    /\ ModalUnused
    /\ pieces \in Templates
    /\ template = Spell(pieces)
    /\ context \in Contexts
    /\ rendered = <<>>
    /\ tpc = "idle"

\* renderer.render(template, context)
Render ==
    /\ tpc = "idle"
    /\ rendered' = render(template, context)
    /\ tpc' = "rendered"
    /\ UNCHANGED <<modalVars, rulesVars, nameVars, repoVars, uniqueVars, createVars, pieces, template, context>>

NextRender == Render

SpecRender == InitRender /\ [][NextRender]_vars

(***************************************************************************)
(* BranchService.createBranch called by two callers that share the         *)
(* RepoService of one page: one step per request sent and answer received  *)
(***************************************************************************)
\* names the callers ask for
CreateNames == {<<"f">>, <<"f", "-", "2">>}

\* branches of the repository before the calls
CreateServerStates == {{}, {<<"f">>}, {<<"f">>, <<"f", "-", "2">>}}

\* the cache entries a page can hold for a repository with these branches:
\* the list as it is, or as it was before branches were created by others
CachedEarlier(names) == {[present |-> TRUE, names |-> earlier] : earlier \in SUBSET names}

InitCreate ==
    /\ ModalUnused
    /\ RulesUnused
    /\ NamesUnused
    /\ RenderUnused
    /\ UniqueIdle
    /\ branchName = <<>>
    /\ now \in NowValues
    /\ serverBranches \in CreateServerStates
    /\ branchesCache \in {NoCache} \cup CachedEarlier(serverBranches)
    /\ \E d \in [Callers -> CreateNames] :
           calls = [c \in Callers |-> [NoCall EXCEPT !.desired = d[c]]]

\* resolveUniqueBranchName after branchExists(call.probe) answered from the
\* list names: the name is settled, or the next candidate is probed
Probed(call, names) ==
    IF ~NameFound(names, call.probe)
    THEN [call EXCEPT !.name = call.probe, !.pc = "update"]
    ELSE LET b == IF call.counter = 0 THEN BaseOf(call.desired) ELSE call.base
             n == IF call.counter = 0 THEN FirstCounter(call.desired)
                  ELSE call.counter + 1
         IN  IF n <= MaxCounter
             THEN [call EXCEPT !.base = b, !.counter = n, !.probe = Candidate(b, n),
                               !.attempt = 1, !.pc = "exists"]
             ELSE [call EXCEPT !.base = b, !.counter = n,
                               !.name = b \o <<"-">> \o now, !.pc = "update"]

\* createBranch(params): resolveUniqueBranchName awaits branchExists(branchName)
CreateBranchCall(c) ==
    /\ calls[c].pc = "idle"
    /\ calls' = [calls EXCEPT ![c] = [@ EXCEPT !.probe = calls[c].desired, !.pc = "exists"]]
    /\ UNCHANGED <<modalVars, rulesVars, nameVars, repoVars, uniqueVars, renderVars>>

\* getBranches finds the list in the cache
BranchExistsCached(c) ==
    /\ calls[c].pc = "exists"
    /\ branchesCache.present
    /\ calls' = [calls EXCEPT ![c] = Probed(@, branchesCache.names)]
    /\ UNCHANGED <<modalVars, rulesVars, nameVars, repoVars, uniqueVars, renderVars>>

\* getBranches misses the cache (or retries) and the server answers getRefs
GetRefsRequest(c) ==
    /\ \/ calls[c].pc = "exists" /\ ~branchesCache.present
       \/ calls[c].pc = "retry"
    /\ calls' = [calls EXCEPT ![c] = [@ EXCEPT !.snapshot = serverBranches,
                                               !.pc = "fetching"]]
    /\ UNCHANGED <<modalVars, rulesVars, nameVars, repoVars, uniqueVars, renderVars>>

\* the answer of getRefs arrives: the list is cached and searched
GetRefsResponse(c) ==
    /\ calls[c].pc = "fetching"
    /\ branchesCache' = [present |-> TRUE, names |-> calls[c].snapshot]
    /\ calls' = [calls EXCEPT ![c] =
                    [Probed(@, @.snapshot) EXCEPT !.cacheOps =
                        IF branchesCache' # branchesCache THEN @ \cup {"stored"} ELSE @]]
    /\ UNCHANGED <<modalVars, rulesVars, nameVars, serverBranches, attempt, uniqueVars, renderVars>>

\* getRefs throws: one retry, then the error leaves createBranch, whose try
\* block begins after resolveUniqueBranchName
GetRefsError(c) ==
    /\ calls[c].pc = "fetching"
    /\ calls' = [calls EXCEPT ![c] =
                    IF @.attempt = 1 THEN [@ EXCEPT !.attempt = 2, !.pc = "retry"]
                    ELSE [@ EXCEPT !.pc = "rejected"]]
    /\ UNCHANGED <<modalVars, rulesVars, nameVars, repoVars, uniqueVars, renderVars>>

\* the answers the server can give when the ref to create exists already
RefExistsReplies == {ReplyRejected, ReplyRejectedSaying, ReplyThrown409}

\* client.updateRefs reaches the server: the ref is created if and only if no
\* ref of that name exists (oldObjectId is the zero id), atomically
UpdateRefsRequest(c) ==
    /\ calls[c].pc = "update"
    /\ IF NameFound(serverBranches, calls[c].name)
       THEN /\ \E reply \in RefExistsReplies :
                   calls' = [calls EXCEPT ![c] = [@ EXCEPT !.reply = reply,
                                                           !.pc = "updating"]]
            /\ serverBranches' = serverBranches
       ELSE /\ calls' = [calls EXCEPT ![c] = [@ EXCEPT !.reply = ReplyCreated,
                                                       !.pc = "updating"]]
            /\ serverBranches' = serverBranches \cup {calls[c].name}
    /\ UNCHANGED <<modalVars, rulesVars, nameVars, branchesCache, attempt, uniqueVars, renderVars>>

\* an invalidation after every answer of updateRefs
CacheAlwaysInvalidated(cache, reply) == NoCache

\* createBranch after updateRefs answered: invalidateBranchCache on the
\* success path only
CacheAfterUpdate(cache, reply) ==
    IF ~reply.thrown /\ reply.success THEN NoCache ELSE cache

\* the answer of updateRefs arrives: on success the cache entry is deleted;
\* createBranch returns its CreateBranchResult
UpdateRefsResponse(c) ==
    /\ calls[c].pc = "updating"
    /\ \E stamp \in StampValues :
           calls' = [calls EXCEPT ![c] =
                        [@ EXCEPT !.result = CreateBranchResult(calls[c].name,
                                                                 calls[c].reply, stamp),
                                  !.cacheOps =
                                      IF CacheAfterUpdate(branchesCache, calls[c].reply)
                                             # branchesCache
                                      THEN @ \cup {"deleted"} ELSE @,
                                  !.pc = "returned"]]
    /\ branchesCache' = CacheAfterUpdate(branchesCache, calls[c].reply)
    /\ UNCHANGED <<modalVars, rulesVars, nameVars, serverBranches, attempt, uniqueVars, renderVars>>

NextCreate ==
    \E c \in Callers :
        \/ CreateBranchCall(c)
        \/ BranchExistsCached(c)
        \/ GetRefsRequest(c)
        \/ GetRefsResponse(c)
        \/ GetRefsError(c)
        \/ UpdateRefsRequest(c)
        \/ UpdateRefsResponse(c)

SpecCreate == InitCreate /\ [][NextCreate]_vars

(***************************************************************************)
(* RulesEngine.computeBranchName: resolve, render, sanitize                *)
(***************************************************************************)
\* rules with the template '{prefix}{wi.id}-{wi.title}' and a prefix of one
\* and of two segments
ShortPrefixRule ==
    [name |-> <<"s","h","o","r","t">>, matchType |-> "glob", match |-> <<"x">>,
     prefix |-> <<"a","/">>, template |-> PrefixedTemplate, workItemState |-> NoState]
DeepPrefixRule ==
    [name |-> <<"d","e","e","p">>, matchType |-> "regex", match |-> <<"^","y","$">>,
     prefix |-> <<"a","/","b","/">>, template |-> PrefixedTemplate,
     workItemState |-> NoState]

ComputeConfig ==
    [rulesBySourceBranch |-> <<ShortPrefixRule, DeepPrefixRule>>,
     rulesByWorkItemType |-> <<>>,
     defaults |-> [template |-> DefaultTemplate, workItemState |-> NoState]]

ComputeSourceBranches == {<<"x">>, <<"y">>, <<"m","a","i","n">>}

ComputeWorkItems ==
    [id : {1, 12}, title : SeqsUpTo({"A", " ", "-"}, MaxTitleLen),
     type : {TypeBug}, state : {<<"N", "e", "w">>}, assignedTo : {Undefined}]

\* settings with a replacement of one character and a maxLength around the
\* length of the longest prefix with an id
ComputeGenerals ==
    [lowercase : BOOLEAN, nonAlnumReplacement : {<<"-">>, <<"_">>},
     maxLength : 1..(MaxMaxLength + 3)]

InitCompute ==
    /\ config = ComputeConfig
    /\ RulesIdle
    /\ UniqueUnused
    /\ CreateUnused
    /\ ModalUnused
    /\ pieces = <<>> /\ template = <<>> /\ rendered = <<>> /\ tpc = "idle"
    /\ context \in [workItem : ComputeWorkItems, prefix : {<<>>}]
    /\ name = <<>>
    /\ general \in ComputeGenerals
    /\ NamesIdle

\* engine.computeBranchName(workItem, sourceBranch)
ComputeBranchName ==
    \E sourceBranch \in ComputeSourceBranches :
        LET workItem == context.workItem
            rule == resolveRule(config, sourceBranch, workItem.type)
            raw == RenderResolved(config, workItem, sourceBranch)
        IN  /\ rpc = "idle"
            /\ request' = [sourceBranch |-> sourceBranch, workItemType |-> workItem.type]
            /\ resolved' = rule
            /\ rpc' = "returned"
            /\ template' = rule.template
            /\ context' = [workItem |-> workItem, prefix |-> rule.prefix]
            /\ rendered' = raw
            /\ tpc' = "rendered"
            /\ name' = raw
            /\ IF sanitizeBranchSegmentThrows(general.nonAlnumReplacement)
               THEN sanitized' = sanitized /\ spc' = "thrown"
               ELSE /\ sanitized' = computeBranchName(config, general, workItem, sourceBranch)
                    /\ spc' = "sanitized"
            /\ UNCHANGED <<modalVars, config, general, resanitized, truncated, validation,
                           repoVars, uniqueVars, createVars, pieces>>

NextCompute == ComputeBranchName

SpecCompute == InitCompute /\ [][NextCompute]_vars

(***************************************************************************)
(* The create-branch dialog: init, repository selection, name edits and    *)
(* handleCreate, one step per dispatch batch and per answer awaited        *)
(***************************************************************************)
MaxLoads == 2

\* a directive that is switched off, and one that is on with an empty state
StateSwitchedOff == [defined |-> TRUE, enabled |-> FALSE, state |-> <<"A","c","t","i","v","e">>]
StateEmpty == [defined |-> TRUE, enabled |-> TRUE, state |-> <<>>]

\* the configuration the dialog loaded: a rule per base ref with a state
\* directive that is on, off, and on without a state; defaults without one
ModalConfig ==
    [rulesBySourceBranch |->
        <<[ShortPrefixRule EXCEPT !.workItemState = StateActive],
          [DeepPrefixRule EXCEPT !.workItemState = StateSwitchedOff],
          [ShortPrefixRule EXCEPT !.match = <<"v">>, !.workItemState = StateEmpty]>>,
     rulesByWorkItemType |-> <<>>,
     defaults |-> [template |-> DefaultTemplate, workItemState |-> NoState]]

ModalWorkItem ==
    [id |-> 1, title |-> <<"A">>, type |-> TypeBug, state |-> <<"N", "e", "w">>,
     assignedTo |-> Undefined]

\* repositories of the project; the third has no branch yet, its default
\* branch is the 'main' getRepositories fills in
ModalRepos ==
    <<[id |-> "r1", defaultBranch |-> <<"x">>],
      [id |-> "r2", defaultBranch |-> <<"y">>],
      [id |-> "r3", defaultBranch |-> <<"m", "a", "i", "n">>]>>

RepoIds == {ModalRepos[i].id : i \in DOMAIN ModalRepos}

\* what getBranches and getTags answer for a repository
RepoBranches(repoId) ==
    CASE repoId = "r1" -> <<[name |-> <<"x">>, objectId |-> "o1"],
                            [name |-> <<"y">>, objectId |-> "o2"]>>
      [] repoId = "r2" -> <<[name |-> <<"y">>, objectId |-> "o3"]>>
      [] OTHER -> <<>>

RepoTags(repoId) ==
    IF repoId = "r1" THEN <<[name |-> <<"v">>, objectId |-> "t1"]>> ELSE <<>>

\* what the user types into the name field
UserNames == {<<" ">>, <<"f">>, <<"-", "f">>}

Range(q) == {q[i] : i \in DOMAIN q}

\* rule.workItemState?.enabled && rule.workItemState.state
RequestsStateWhenEnabled(rule) == rule.workItemState.enabled

RequestsState(rule) == rule.workItemState.enabled /\ rule.workItemState.state # <<>>

\* the recompute effect's dependency array
EffectDeps(state) == <<state.selectedBaseBranch, state.workItem, state.manualOverride>>

\* the recompute effect on a state it runs for: the SET_BRANCH_COMPUTED action
RecomputeAction(state) ==
    LET computedName == computeBranchName(ModalConfig, DefaultGeneral, state.workItem,
                                          state.selectedBaseBranch)
        rule == resolveRule(ModalConfig, state.selectedBaseBranch, state.workItem.type)
        validated == validateBranchName(computedName, DefaultGeneral.maxLength)
    IN  [type |-> "SET_BRANCH_COMPUTED",
         payload |-> [name |-> computedName,
                      warning |-> IF Len(validated.warnings) > 0
                                  THEN validated.warnings[1] ELSE Null,
                      stateHint |-> IF RequestsState(rule)
                                    THEN rule.workItemState.state ELSE Null]]

\* dispatch(action) and the render it causes: the reducer, then the
\* recompute effect if one of its dependencies changed
Dispatch(state, action) ==
    LET next == reducer(state, action)
    IN  IF /\ EffectDeps(next) # EffectDeps(state)
           /\ next.selectedBaseBranch # <<>>
           /\ next.workItem # NoWorkItem
           /\ ~next.manualOverride
        THEN reducer(next, RecomputeAction(next))
        ELSE next

Without(q, i) == [j \in 1..(Len(q) - 1) |-> IF j < i THEN q[j] ELSE q[j + 1]]

DialogOpen == modal.initState = "ready" /\ ~flow.closed

InitModal ==
    /\ config = ModalConfig
    /\ RulesIdle
    /\ NamesUnused
    /\ RenderUnused
    /\ UniqueUnused
    /\ CreateUnused
    /\ ModalUnused

\* the init effect: config, work item and repositories loaded
InitSuccess ==
    /\ modal.initState = "loading"
    /\ \E allow \in BOOLEAN :
           modal' = Dispatch(modal, [type |-> "INIT_SUCCESS",
                                     payload |-> [workItem |-> ModalWorkItem,
                                                  repos |-> ModalRepos,
                                                  allowManualOverride |-> allow]])
    /\ UNCHANGED <<rulesVars, nameVars, repoVars, uniqueVars, renderVars, createVars,
                   loads, flow, log>>

\* the init effect: a load failed or the work item is missing
InitError ==
    /\ modal.initState = "loading"
    /\ modal' = Dispatch(modal, [type |-> "INIT_ERROR", payload |-> <<"generic">>])
    /\ UNCHANGED <<rulesVars, nameVars, repoVars, uniqueVars, renderVars, createVars,
                   loads, flow, log>>

\* handleRepoChange(repoId) up to its await
HandleRepoChange(repoId) ==
    /\ DialogOpen
    /\ ~modal.creating
    /\ Len(loads) < MaxLoads
    /\ modal' = Dispatch(modal, [type |-> "SET_REPO", payload |-> repoId])
    /\ loads' = Append(loads, repoId)
    /\ UNCHANGED <<rulesVars, nameVars, repoVars, uniqueVars, renderVars, createVars,
                   flow, log>>

\* handleRepoChange after getBranches and getTags both answered
BranchesAndTagsLoaded(i) ==
    LET repoId == loads[i]
        repo == CHOOSE r \in Range(modal.repos) : r.id = repoId
        branches == RepoBranches(repoId)
        defaultBranchName == repo.defaultBranch
        found == {b \in Range(branches) : b.name = defaultBranchName}
        defaultObjectId == IF found = {} THEN ""
                           ELSE branches[CHOOSE k \in DOMAIN branches :
                                    /\ branches[k].name = defaultBranchName
                                    /\ \A j \in 1..(k - 1) :
                                           branches[j].name # defaultBranchName].objectId
        loaded == Dispatch(modal, [type |-> "BRANCHES_LOADED",
                                   payload |-> [branches |-> branches,
                                                defaultBranch |-> defaultBranchName,
                                                defaultObjectId |-> defaultObjectId]])
    IN  /\ ~flow.closed
        /\ modal' = Dispatch(loaded, [type |-> "TAGS_LOADED", payload |-> RepoTags(repoId)])
        /\ loads' = Without(loads, i)
        /\ UNCHANGED <<rulesVars, nameVars, repoVars, uniqueVars, renderVars, createVars,
                       flow, log>>

\* handleRepoChange after getBranches or getTags rejected
LoadFailed(i) ==
    /\ ~flow.closed
    /\ modal' = Dispatch(modal, [type |-> "SET_LOADING_BRANCHES", payload |-> FALSE])
    /\ loads' = Without(loads, i)
    /\ UNCHANGED <<rulesVars, nameVars, repoVars, uniqueVars, renderVars, createVars,
                   flow, log>>

\* the picker's onSelect, over the branches and tags it shows
SetBaseRef ==
    /\ DialogOpen
    /\ ~modal.loadingBranches
    /\ modal.selectedRepoId # ""
    /\ ~modal.creating
    /\ \E ref \in Range(modal.branches) \cup Range(modal.tags) :
           modal' = Dispatch(modal, [type |-> "SET_BASE_REF",
                                     payload |-> [name |-> ref.name,
                                                  objectId |-> ref.objectId]])
    /\ UNCHANGED <<rulesVars, nameVars, repoVars, uniqueVars, renderVars, createVars,
                   loads, flow, log>>

\* the name field's onChange
SetBranchName ==
    /\ DialogOpen
    /\ modal.allowManualOverride
    /\ ~modal.creating
    /\ \E typed \in UserNames :
           modal' = Dispatch(modal, [type |-> "SET_BRANCH_NAME", payload |-> typed])
    /\ UNCHANGED <<rulesVars, nameVars, repoVars, uniqueVars, renderVars, createVars,
                   loads, flow, log>>

\* a call handleCreate made: createBranch with its outcome, addBranchLink
\* with the name, updateState with the state, each with the captured base ref
LogEntry(op, outcome, str, state, baseRef) ==
    [op |-> op, outcome |-> outcome, name |-> str, state |-> state, base |-> baseRef]

\* handleCreate returned, its closure is gone; on the success path
\* panel.close() has closed the dialog where the host offers it
Returned(closes) == [NoFlow EXCEPT !.pc = "done", !.closed = closes]

\* handleCreate from the press of the enabled button to its first await
HandleCreate ==
    LET validated == validateBranchName(modal.branchName, DefaultGeneral.maxLength)
        started == Dispatch(modal, [type |-> "CREATE_START"])
        captured == [flow EXCEPT !.repoId = modal.selectedRepoId,
                                 !.base = modal.selectedBaseBranch,
                                 !.objectId = modal.selectedBaseObjectId,
                                 !.name = Trim(modal.branchName)]
    IN  /\ DialogOpen
        /\ ~modal.creating
        /\ modal.selectedRepoId # ""
        /\ modal.selectedBaseBranch # <<>>
        /\ modal.branchName # <<>>
        /\ flow.pc \in {"idle", "done"}
        /\ IF Trim(modal.branchName) = <<>>
           THEN /\ modal' = Dispatch(modal, [type |-> "CREATE_ERROR",
                                             payload |-> <<"branchNameRequired">>])
                /\ flow' = Returned(FALSE)
           ELSE IF ~validated.valid
           THEN /\ modal' = Dispatch(modal, [type |-> "CREATE_ERROR",
                                             payload |-> <<validated.errors[1]>>])
                /\ flow' = Returned(FALSE)
           ELSE IF modal.selectedBaseObjectId = ""
           THEN /\ modal' = Dispatch(started, [type |-> "CREATE_ERROR",
                                               payload |-> <<"basedOnRequired">>])
                /\ flow' = Returned(FALSE)
           ELSE /\ modal' = started
                /\ flow' = [captured EXCEPT !.pc = "createBranch"]
        /\ log' = <<>>
        /\ UNCHANGED <<rulesVars, nameVars, repoVars, uniqueVars, renderVars, createVars,
                       loads>>

\* a reply of updateRefs that throws with HTTP status 403
ReplyThrown403 == [thrown |-> TRUE, success |-> FALSE, customMessage |-> Undefined, status |-> 403]

\* what createBranch can resolve to for the name handed over: created under
\* that name or under its first free suffix, or one of the failures
CreateOutcomes(str) ==
    {CreateBranchResult(created, reply, stamp) :
        created \in {str, str \o <<"-", "2">>},
        reply \in {ReplyCreated, ReplyRejected, ReplyRejectedSaying, ReplyThrown409,
                   ReplyThrown403},
        stamp \in StampValues}

\* the CREATE_ERROR message handleCreate picks for a failed result
CreateErrorOf(result) ==
    CASE result.error = "branch_exists" -> <<"branchExists">>
      [] result.error = "branch_conflict" -> <<"branchConflict">>
      [] result.error = "permission_denied" -> <<"permissionDenied">>
      [] OTHER -> <<"generic">>

\* handleCreate after createBranch resolved: failure, or on to addBranchLink
CreateBranchResolved ==
    /\ flow.pc = "createBranch"
    /\ \E result \in CreateOutcomes(flow.name) :
           IF ~result.success
           THEN /\ modal' = Dispatch(modal, [type |-> "CREATE_ERROR",
                                             payload |-> CreateErrorOf(result)])
                /\ flow' = Returned(FALSE)
                /\ log' = Append(log, LogEntry("createBranch", result.error, <<>>, <<>>,
                                               flow.base))
           ELSE /\ modal' = modal
                /\ flow' = [flow EXCEPT !.pc = "addBranchLink"]
                /\ log' = log \o <<LogEntry("createBranch", "none", result.branchName,
                                            <<>>, flow.base),
                                   LogEntry("addBranchLink", "none", result.branchName,
                                            <<>>, flow.base)>>
    /\ UNCHANGED <<rulesVars, nameVars, repoVars, uniqueVars, renderVars, createVars,
                   loads>>

\* handleCreate after createBranch rejected: the catch block
CreateBranchRejected ==
    /\ flow.pc = "createBranch"
    /\ modal' = Dispatch(modal, [type |-> "CREATE_ERROR", payload |-> <<"generic">>])
    /\ flow' = Returned(FALSE)
    /\ log' = Append(log, LogEntry("createBranch", "rejected", <<>>, <<>>, flow.base))
    /\ UNCHANGED <<rulesVars, nameVars, repoVars, uniqueVars, renderVars, createVars,
                   loads>>

\* handleCreate after addBranchLink answered (it never rejects)
AddBranchLinkResolved ==
    LET rule == resolveRule(ModalConfig, flow.base, ModalWorkItem.type)
    IN  /\ flow.pc = "addBranchLink"
        /\ IF RequestsState(rule)
           THEN /\ flow' = [flow EXCEPT !.pc = "updateState"]
                /\ log' = Append(log, LogEntry("updateState", "none", <<>>,
                                               rule.workItemState.state, flow.base))
           ELSE /\ \E closes \in BOOLEAN : flow' = Returned(closes)
                /\ log' = log
        /\ UNCHANGED <<rulesVars, nameVars, repoVars, uniqueVars, renderVars, createVars,
                       modal, loads>>

\* handleCreate after updateState answered (it never rejects)
UpdateStateResolved ==
    /\ flow.pc = "updateState"
    /\ \E closes \in BOOLEAN : flow' = Returned(closes)
    /\ UNCHANGED <<rulesVars, nameVars, repoVars, uniqueVars, renderVars, createVars,
                   modal, loads, log>>

\* the Cancel button: panel.close() where the host offers it
Cancel ==
    /\ DialogOpen
    /\ ~modal.creating
    /\ flow' = [flow EXCEPT !.closed = TRUE]
    /\ UNCHANGED <<rulesVars, nameVars, repoVars, uniqueVars, renderVars, createVars,
                   modal, loads, log>>

NextModal ==
    \/ InitSuccess
    \/ InitError
    \/ \E repoId \in RepoIds : HandleRepoChange(repoId)
    \/ \E i \in DOMAIN loads : BranchesAndTagsLoaded(i)
    \/ \E i \in DOMAIN loads : LoadFailed(i)
    \/ SetBaseRef
    \/ SetBranchName
    \/ HandleCreate
    \/ CreateBranchResolved
    \/ CreateBranchRejected
    \/ AddBranchLinkResolved
    \/ UpdateStateResolved
    \/ Cancel

SpecModal == InitModal /\ [][NextModal]_vars

(***************************************************************************)
(* Properties of rule resolution                                           *)
(***************************************************************************)
\* what resolveRule returns for a source-branch rule
SourceRuleResult(rule) ==
    [template |-> rule.template, prefix |-> OrElse(rule.prefix, <<>>),
     workItemState |-> rule.workItemState, matchedRuleName |-> rule.name]

\* what resolveRule returns for a work-item-type rule
TypeRuleResult(rule) ==
    [template |-> rule.template, prefix |-> OrElse(rule.prefix, <<>>),
     workItemState |-> rule.workItemState,
     matchedRuleName |-> WiTypePrefix \o rule.workItemType]

\* indices of the source-branch rules whose pattern matches the requested branch
SourceMatches ==
    {i \in 1..Len(config.rulesBySourceBranch) :
        matchesBranch(request.sourceBranch, config.rulesBySourceBranch[i].matchType,
                      config.rulesBySourceBranch[i].match)}

\* indices of the work-item-type rules that equal the requested type, case ignored
TypeMatches ==
    {j \in 1..Len(config.rulesByWorkItemType) :
        toLowerCase(config.rulesByWorkItemType[j].workItemType)
            = toLowerCase(request.workItemType)}

Lowest(S) == CHOOSE i \in S : \A k \in S : i <= k

\* C1: when a source-branch rule and a work-item-type rule both match, the
\* result carries the template, prefix, workItemState and name of a matching
\* source-branch rule and never those of the work-item-type rule.
C1_SourceBranchPrecedence ==
    (rpc = "returned" /\ SourceMatches # {} /\ TypeMatches # {}) =>
        /\ \E i \in SourceMatches :
               resolved = SourceRuleResult(config.rulesBySourceBranch[i])
        /\ \A j \in TypeMatches :
               resolved # TypeRuleResult(config.rulesByWorkItemType[j])

C1_Witness ==
    /\ rpc = "returned"
    /\ SourceMatches # {}
    /\ TypeMatches # {}
    /\ resolved.matchedRuleName = HotfixGlobRule.name
    /\ request.workItemType = TypeBug

\* C2: within each tier the matching rule with the lowest index decides the
\* result, and the rules after it have no influence: cutting the list after
\* the first match leaves the result unchanged.
C2_FirstMatchWins ==
    rpc = "returned" =>
        /\ SourceMatches # {} =>
              /\ resolved = SourceRuleResult(config.rulesBySourceBranch[Lowest(SourceMatches)])
              /\ resolved = resolveRule(
                     [config EXCEPT !.rulesBySourceBranch =
                          SubSeq(config.rulesBySourceBranch, 1, Lowest(SourceMatches))],
                     request.sourceBranch, request.workItemType)
        /\ (SourceMatches = {} /\ TypeMatches # {}) =>
              /\ resolved = TypeRuleResult(config.rulesByWorkItemType[Lowest(TypeMatches)])
              /\ resolved = resolveRule(
                     [config EXCEPT !.rulesByWorkItemType =
                          SubSeq(config.rulesByWorkItemType, 1, Lowest(TypeMatches))],
                     request.sourceBranch, request.workItemType)

C2_Witness ==
    /\ rpc = "returned"
    /\ Cardinality(SourceMatches) = 2
    /\ config.rulesBySourceBranch[1] # config.rulesBySourceBranch[2]
    /\ resolved.matchedRuleName = config.rulesBySourceBranch[1].name

\* C3: when no rule of either list matches (empty lists included) the result
\* is the default: defaults.template, empty prefix, defaults.workItemState and
\* the name "default".
C3_DefaultFallthrough ==
    (rpc = "returned" /\ SourceMatches = {} /\ TypeMatches = {}) =>
        /\ resolved.template = config.defaults.template
        /\ resolved.prefix = <<>>
        /\ resolved.workItemState = config.defaults.workItemState
        /\ resolved.matchedRuleName = <<"d","e","f","a","u","l","t">>

C3_Witness ==
    /\ rpc = "returned"
    /\ SourceMatches = {}
    /\ TypeMatches = {}
    /\ Len(config.rulesBySourceBranch) > 0
    /\ Len(config.rulesByWorkItemType) > 0
    /\ config.defaults.workItemState = StateActive
    /\ resolved.matchedRuleName = DefaultName

\* the request was resolved by a configuration whose first source-branch rule
\* is the glob rule 'hotfix/*'
HotfixGlobFirst ==
    /\ rpc = "returned"
    /\ Len(config.rulesBySourceBranch) > 0
    /\ config.rulesBySourceBranch[1] = HotfixGlobRule

Malformed(rule) == rule.matchType = "regex" /\ ~RegExpCompiles(rule.match)

\* the rule list q without its malformed rules
RECURSIVE WithoutMalformed(_)
WithoutMalformed(q) ==
    IF q = <<>> THEN <<>>
    ELSE IF Malformed(Head(q)) THEN WithoutMalformed(Tail(q))
    ELSE <<Head(q)>> \o WithoutMalformed(Tail(q))

\* C9: a source-branch rule whose pattern fails to compile never matches, and
\* resolution goes on with the next rule and the later tiers: the call returns
\* what it returns for the configuration without the malformed rules.
C9_MalformedRuleSkipped ==
    rpc = "returned" =>
        /\ \A i \in SourceMatches : ~Malformed(config.rulesBySourceBranch[i])
        /\ resolved = resolveRule(
               [config EXCEPT !.rulesBySourceBranch =
                    WithoutMalformed(config.rulesBySourceBranch)],
               request.sourceBranch, request.workItemType)

C9_Witness ==
    /\ rpc = "returned"
    /\ Len(config.rulesBySourceBranch) = 2
    /\ Malformed(config.rulesBySourceBranch[1])
    /\ resolved = SourceRuleResult(config.rulesBySourceBranch[2])
    /\ ~Malformed(config.rulesBySourceBranch[2])

\* two characters are the same letter in either case, or the same character
SameIgnoringCase(c, d) ==
    \/ c = d
    \/ \E i \in 1..26 : {c, d} = {UpperChars[i], LowerChars[i]}

\* two strings are equal when the case of their letters is ignored
EqualIgnoringCase(a, b) ==
    /\ Len(a) = Len(b)
    /\ \A i \in 1..Len(a) : SameIgnoringCase(a[i], b[i])

\* indices of the work-item-type rules whose type equals the requested one
\* when case is ignored
TypeEquals ==
    {j \in 1..Len(config.rulesByWorkItemType) :
        EqualIgnoringCase(config.rulesByWorkItemType[j].workItemType,
                          request.workItemType)}

\* C15: when no source-branch rule matches, a work-item-type rule is taken
\* exactly when its workItemType equals the requested type with case ignored,
\* and matchedRuleName is 'WI type: ' followed by the spelling of the rule,
\* not that of the request.
C15_TypeMatchIgnoresCase ==
    (rpc = "returned" /\ SourceMatches = {}) =>
        IF TypeEquals = {}
        THEN resolved = DefaultRule(config)
        ELSE /\ resolved.matchedRuleName
                  = WiTypePrefix \o config.rulesByWorkItemType[Lowest(TypeEquals)].workItemType
             /\ resolved.template = config.rulesByWorkItemType[Lowest(TypeEquals)].template

\* request 'bug' against the rule 'Bug' gives 'WI type: Bug'
C15_Witness ==
    /\ rpc = "returned"
    /\ SourceMatches = {}
    /\ request.workItemType = TypeLowerBug
    /\ Len(config.rulesByWorkItemType) >= 1
    /\ config.rulesByWorkItemType[1] = BugRule
    /\ resolved.matchedRuleName = <<"W","I"," ","t","y","p","e",":"," ","B","u","g">>

(***************************************************************************)
(* Properties of sanitization, truncation and validation                   *)
(***************************************************************************)
\* C4: sanitizing is idempotent: sanitizing a sanitized name again, under the
\* same settings, gives the same name, truncated names included.
C4_SanitizeIdempotent ==
    spc = "resanitized" => resanitized = sanitized

\* C5: the sanitized name is never longer than general.maxLength.
C5_LengthWithinMax ==
    spc # "input" => Len(sanitized) <= general.maxLength

\* a name that was cut on the ID-preserving path down to exactly maxLength
C5_Witness ==
    /\ spc = "sanitized"
    /\ name \in RenderedNames
    /\ Len(name) > general.maxLength
    /\ Len(sanitized) = general.maxLength
    /\ StartsWith(sanitized, <<"a", "/", "1", "-">>)
    /\ Len(sanitized) > 4

\* the leading 'prefix/<digits>-' of a name of that form
IdHead(str) ==
    LET slash == IndexOfChar(str, "/")
    IN  SubSeq(str, 1, slash + DigitRun(str, slash + 1) + 1)

\* C6: truncating a name prefix/<digits>-<title> that is longer than maxLength
\* keeps 'prefix/<digits>-' whole whenever that head fits within maxLength.
C6_IdPreserved ==
    (/\ spc = "truncated"
     /\ Len(name) > general.maxLength
     /\ Len(IdHead(name)) <= general.maxLength)
        => StartsWith(truncated, IdHead(name))

C6_Witness ==
    /\ spc = "truncated"
    /\ Len(name) > general.maxLength
    /\ Len(IdHead(name)) = general.maxLength
    /\ truncated = IdHead(name)

\* C7: with the replacement character '-', every non-empty sanitized name
\* passes validateBranchName without errors.
C7_SanitizedNameValid ==
    (/\ spc = "validated"
     /\ general.nonAlnumReplacement = <<"-">>
     /\ sanitized # <<>>)
        => validation.errors = <<>>


\* C12: no core operation throws: sanitizeBranchName, like the other
\* operations, returns a value for every name and every configuration.
C12_NoOperationThrows ==
    spc # "thrown"

\* C14: validateBranchName returns valid = true exactly when it returns no
\* errors; a name longer than maxLength but within the hard limit of 250
\* gets a warning and no length error.
C14_ValidIffNoErrors ==
    spc = "checked" =>
        /\ validation.valid <=> (validation.errors = <<>>)
        /\ (Len(name) > general.maxLength /\ Len(name) <= HARD_MAX_LENGTH) =>
               /\ validation.warnings = <<"tooLong">>
               /\ \A i \in 1..Len(validation.errors) : validation.errors[i] # "hardLimit"

\* a name of 250 letters against maxLength 80: valid, with the warning
C14_Witness ==
    /\ spc = "checked"
    /\ name = LongName(HARD_MAX_LENGTH)
    /\ general.maxLength = 80
    /\ validation.valid
    /\ validation.errors = <<>>
    /\ validation.warnings = <<"tooLong">>

\* the sanitized name before truncation, for a replacement of at most one
\* character (the name does not grow)
Untruncated == sanitizeBranchName(name, [general EXCEPT !.maxLength = Len(name)])

\* sanitizeBranchName called truncateBranchName
WasTruncated == spc = "sanitized" /\ Len(Untruncated) > general.maxLength

\* C21: after truncation the result never ends with the configured
\* replacement character, whichever character that is.
C21_NoTrailingReplacement ==
    (WasTruncated /\ Len(general.nonAlnumReplacement) = 1) =>
        ~EndsWith(sanitized, general.nonAlnumReplacement)

\* the replacement is empty or one character of [A-Za-z0-9_.-]
ReplacementAllowed ==
    \/ general.nonAlnumReplacement = <<>>
    \/ /\ Len(general.nonAlnumReplacement) = 1
       /\ AllowedChar(general.nonAlnumReplacement[1])

\* C23: with a replacement that is empty or one allowed character, every
\* character of the sanitized name is in [A-Za-z0-9_.-] or is '/', and with
\* lowercase set the sanitized name has no uppercase letter.
C23_OnlyAllowedCharacters ==
    (spc = "sanitized" /\ ReplacementAllowed) =>
        /\ \A i \in 1..Len(sanitized) : AllowedChar(sanitized[i]) \/ sanitized[i] = "/"
        /\ general.lowercase => \A i \in 1..Len(sanitized) : ~IsUpper(sanitized[i])

\* a name with a space and an uppercase letter was sanitized, lowercased and
\* truncated, and the replacement character is in the result
C23_Witness ==
    /\ spc = "sanitized"
    /\ general.lowercase
    /\ general.nonAlnumReplacement = <<"_">>
    /\ Includes(name, <<" ">>)
    /\ Includes(name, <<"A">>)
    /\ WasTruncated
    /\ Includes(sanitized, <<"_">>)
    /\ Includes(sanitized, <<"a">>)

\* C24: the sanitized name has no empty segment (here with the default
\* replacement '-'): it does not start with '/', does not end with '/' and
\* contains no '//', also after truncation.
C24_NoEmptySegment ==
    (spc = "sanitized" /\ general.nonAlnumReplacement = <<"-">>) =>
        /\ ~StartsWith(sanitized, <<"/">>)
        /\ ~EndsWith(sanitized, <<"/">>)
        /\ ~Includes(sanitized, <<"/", "/">>)

\* the prefix of the resolved rule followed by '<id>-'
PrefixAndId == resolved.prefix \o FormatInt(context.workItem.id) \o <<"-">>

\* the title of the work item starts with a letter, so that the title
\* segment does not vanish in sanitization
TitleStartsWithLetter ==
    Len(context.workItem.title) > 0 /\ context.workItem.title[1] = "A"

\* C22: for a rule with the template '{prefix}{wi.id}-{wi.title}' and a work
\* item whose title starts with a letter, if the prefix followed by '<id>-'
\* fits within maxLength, the computed name starts with the prefix followed
\* by '<id>-', whatever the number of segments of the prefix.
C22_IdNeverSacrificed ==
    (/\ spc = "sanitized"
     /\ rpc = "returned"
     /\ resolved.template = PrefixedTemplate
     /\ TitleStartsWithLetter
     /\ Len(PrefixAndId) <= general.maxLength)
        => StartsWith(sanitized, PrefixAndId)

(***************************************************************************)
(* Properties of the unique-name derivation                                *)
(***************************************************************************)
\* the repository holds a branch of that name, compared without case
Exists(str) == NameFound(serverBranches, str)

\* the smallest m >= 2 for which  d-m  does not exist
SmallestFree(d) ==
    CHOOSE m \in 2..(MaxExisting + 2) :
        /\ ~Exists(Candidate(d, m))
        /\ \A k \in 2..(m - 1) : Exists(Candidate(d, k))

\* the probes  d, d-2, d-3, ..., d-m  in that order
ProbesUpTo(d, m) == <<d>> \o [i \in 1..(m - 1) |-> Candidate(d, i + 1)]

\* C10 as stated: resolveUniqueBranchName returns the desired name unchanged
\* when it does not exist; when it exists and has no trailing -N suffix, it
\* returns desired-m for the smallest m >= 2 such that desired-m does not
\* exist, having probed desired, desired-2, ..., desired-m in that order and
\* nothing after the first free one.
C10_SmallestFreeSuffix ==
    upc = "done" =>
        IF ~Exists(branchName)
        THEN uniqueName = branchName /\ probes = <<branchName>>
        ELSE ~SuffixMatch(branchName).matched =>
                /\ uniqueName = Candidate(branchName, SmallestFree(branchName))
                /\ probes = ProbesUpTo(branchName, SmallestFree(branchName))

\* C10 amended: the same, provided the smallest free m is at most 100, the
\* last suffix the loop tries; when desired-2 .. desired-100 all exist the
\* result is desired-<Date.now()> instead.
C10_SmallestFreeSuffixUpTo100 ==
    upc = "done" =>
        IF ~Exists(branchName)
        THEN uniqueName = branchName /\ probes = <<branchName>>
        ELSE (~SuffixMatch(branchName).matched
                /\ SmallestFree(branchName) <= MaxCounter) =>
                /\ uniqueName = Candidate(branchName, SmallestFree(branchName))
                /\ probes = ProbesUpTo(branchName, SmallestFree(branchName))

\* desired, desired-2 and desired-3 exist and desired-4 is returned after
\* four probes
C10_Witness ==
    /\ upc = "done"
    /\ ~SuffixMatch(branchName).matched
    /\ Exists(branchName)
    /\ Exists(Candidate(branchName, 2))
    /\ Exists(Candidate(branchName, 3))
    /\ ~Exists(Candidate(branchName, 4))
    /\ uniqueName = Candidate(branchName, 4)
    /\ Len(probes) = 4


\* the call returned the timestamp fallback
FellBack == upc = "done" /\ uniqueName = base \o <<"-">> \o now /\ base # <<>>

\* C11: the name returned by resolveUniqueBranchName is one for which the
\* existence predicate is false: the resolver never returns a name that exists.
C11_ReturnedNameIsFree ==
    upc = "done" => ~Exists(uniqueName)


\* C18: when the desired name exists, the first candidate probed is
\* base-(N+1) if the name ends in a numeric suffix -N, whatever N is, and
\* name-2 otherwise.
C18_FirstProbeAfterSuffix ==
    (upc = "done" /\ Exists(branchName)) =>
        /\ Len(probes) >= 2
        /\ probes[2] = IF SuffixMatch(branchName).matched
                       THEN Candidate(SuffixMatch(branchName).base,
                                      ParseInt(SuffixMatch(branchName).num) + 1)
                       ELSE Candidate(branchName, 2)

\* every name probed so far exists
AllProbedExist ==
    LET lower == {toLowerCase(b) : b \in serverBranches}
    IN  \A i \in 1..Len(probes) : toLowerCase(probes[i]) \in lower

\* C19: resolveUniqueBranchName always terminates; a call probes at most 100
\* candidates after the desired name; and when every name it probed exists
\* it returns base-<Date.now()>, a name it has not probed.
C19_TerminatesWithin100 ==
    /\ [](Len(probes) <= 1 + 100)
    /\ []((upc = "done" /\ AllProbedExist) =>
             /\ uniqueName = base \o <<"-">> \o now
             /\ \A i \in 1..Len(probes) : probes[i] # uniqueName)
    /\ <>(upc \in {"done", "rejected"})

\* the desired name and the 99 candidates -2 .. -100 were probed, all exist,
\* and the timestamp name was returned
C19_Witness ==
    /\ FellBack
    /\ Len(probes) = 100
    /\ AllProbedExist
    /\ probes[100] = Candidate(base, 100)

\* C20: the alternative name suggested for a name n is the first candidate
\* that resolveUniqueBranchName probes for n when n exists.
C20_SuggestionIsFirstProbe ==
    (upc = "done" /\ Exists(branchName)) =>
        /\ Len(probes) >= 2
        /\ \A stamp \in StampValues :
               buildAlternativeName(branchName, stamp) = probes[2]

(***************************************************************************)
(* Properties of template rendering                                        *)
(***************************************************************************)
\* the token table: the value of a key, the empty string for any other key
TableValue(key, ctx) ==
    IF key = KeyId THEN FormatInt(ctx.workItem.id)
    ELSE IF key = KeyTitle THEN ctx.workItem.title
    ELSE IF key = KeyType THEN ctx.workItem.type
    ELSE IF key = KeyState THEN ctx.workItem.state
    ELSE IF key = KeyAssignedTo
         THEN (IF ctx.workItem.assignedTo = Undefined THEN <<>> ELSE ctx.workItem.assignedTo)
    ELSE IF key = KeyPrefix THEN ctx.prefix
    ELSE <<>>

\* texts copied, placeholders replaced by the table value of their key
RECURSIVE Expected(_, _)
Expected(ps, ctx) ==
    IF ps = <<>> THEN <<>>
    ELSE (IF Head(ps).kind = "text" THEN Head(ps).text ELSE TableValue(Head(ps).key, ctx))
             \o Expected(Tail(ps), ctx)

\* C13: render replaces every placeholder '{key}' by the table value of the
\* trimmed key, or by the empty string for a key outside the table, and
\* copies all other text unchanged.
C13_RenderByTable ==
    tpc = "rendered" => rendered = Expected(pieces, context)

\* '{ wi.id }-{wi.assignedTo}' with the assignee absent renders as '42-'
C13_Witness ==
    /\ tpc = "rendered"
    /\ template = <<"{", " ">> \o KeyId \o <<" ", "}", "{">> \o KeyAssignedTo \o <<"}">>
    /\ context.workItem.id = 42
    /\ context.workItem.assignedTo = Undefined
    /\ rendered = <<"4", "2">>


(***************************************************************************)
(* Properties of branch creation                                           *)
(***************************************************************************)
\* the errors of a CreateBranchResult that report a conflict
ConflictErrors == {"branch_exists", "branch_conflict"}

\* both callers settled on the same name and both calls returned
SameNameRace ==
    /\ \A c \in Callers : calls[c].pc = "returned"
    /\ calls[1].name = calls[2].name

\* C16: when two concurrent createBranch calls resolve the same free name, at
\* most one returns success for it, and the other returns success = false
\* with a conflict error, without probing again or creating another branch.
C16_RaceLoserGetsConflict ==
    SameNameRace =>
        \A c \in Callers : \A d \in Callers \ {c} :
            calls[c].result.success =>
                /\ ~calls[d].result.success
                /\ calls[d].result.error \in ConflictErrors


\* C17: after a createBranch call has returned success, the next branchExists
\* or getBranches call for the repository observes the created branch: the
\* cache entry is gone, so that the list is fetched anew, and no list without
\* the branch is in the cache.
C17_CreatedBranchObserved ==
    \A c \in Callers :
        (calls[c].pc = "returned" /\ calls[c].result.success) =>
            (branchesCache.present =>
                NameFound(branchesCache.names, calls[c].result.branchName))

\* C25: createBranch reports every outcome as a value: no call ends with a
\* rejected promise, whatever getRefs and updateRefs do.
C25_NeverRejects ==
    \A c \in Callers : calls[c].pc # "rejected"

\* the call has ended without success: a result with success false, or a
\* rejected promise
EndedWithoutSuccess(c) ==
    \/ calls[c].pc = "rejected"
    \/ calls[c].pc = "returned" /\ ~calls[c].result.success

\* C30 as stated: a call that ended without success has left the cache as it
\* was, it has neither stored nor deleted an entry.
C30_FailedCallLeavesCache ==
    \A c \in Callers : EndedWithoutSuccess(c) => calls[c].cacheOps = {}

\* C30: a call that ended without success has not deleted the cache entry
\* (all it can have done is store the list it fetched on a miss), and two
\* calls for the same desired name that both returned a failure resolved the
\* same candidate name.
C30_FailedCallNeverInvalidates ==
    /\ \A c \in Callers : EndedWithoutSuccess(c) => "deleted" \notin calls[c].cacheOps
    /\ \A c, d \in Callers :
           (/\ calls[c].pc = "returned" /\ ~calls[c].result.success
            /\ calls[d].pc = "returned" /\ ~calls[d].result.success
            /\ calls[c].desired = calls[d].desired)
               => calls[c].name = calls[d].name

\* both calls asked for 'f', found it free in a list cached before 'f' was
\* created, failed on updateRefs, and the cached list is still in place
C30_Witness ==
    /\ \A c \in Callers :
           /\ calls[c].pc = "returned"
           /\ ~calls[c].result.success
           /\ calls[c].desired = <<"f">>
           /\ calls[c].name = <<"f">>
           /\ calls[c].cacheOps = {}
    /\ branchesCache = [present |-> TRUE, names |-> {}]
    /\ <<"f">> \in serverBranches

(***************************************************************************)
(* Properties of the create-branch dialog                                  *)
(***************************************************************************)
\* the state directive of the rule that applies to a base ref
DirectiveOf(baseRef) == resolveRule(ModalConfig, baseRef, ModalWorkItem.type).workItemState

\* C26: handleCreate calls updateState only as its third call, after a
\* createBranch that succeeded and an addBranchLink with the created name,
\* and only with the non-empty state of an enabled directive; addBranchLink
\* only follows a successful createBranch; after a failed createBranch no
\* further call is made.
C26_StateUpdateOnlyAfterCreation ==
    /\ \A i \in DOMAIN log :
           log[i].op = "updateState" =>
               /\ i = 3
               /\ DirectiveOf(log[i].base).enabled
               /\ DirectiveOf(log[i].base).state # <<>>
               /\ log[i].state = DirectiveOf(log[i].base).state
    /\ \A i \in DOMAIN log :
           log[i].op = "addBranchLink" =>
               /\ i = 2
               /\ log[1].op = "createBranch"
               /\ log[1].outcome = "none"
               /\ log[i].name = log[1].name
    /\ \A i \in DOMAIN log : log[i].op = "createBranch" => i = 1
    /\ (log # <<>> /\ log[1].outcome # "none") => Len(log) = 1

\* the branch was created under a suffixed name, linked under that name, and
\* the state update of the rule for base ref 'x' was requested
C26_Witness ==
    /\ Len(log) = 3
    /\ log[1].name = <<"f", "-", "2">>
    /\ log[2].name = <<"f", "-", "2">>
    /\ log[3].op = "updateState"
    /\ log[3].base = <<"x">>
    /\ log[3].state = StateActive.state

\* C27: with no branch load in flight and a repository selected, the branch
\* list and the selected base ref with its object id are those of the
\* selected repository.
C27_RefsOfSelectedRepo ==
    (DialogOpen /\ loads = <<>> /\ modal.selectedRepoId # "") =>
        LET refs == Range(RepoBranches(modal.selectedRepoId))
                        \cup Range(RepoTags(modal.selectedRepoId))
        IN  /\ Range(modal.branches) \subseteq refs
            /\ modal.selectedBaseObjectId # "" =>
                   [name |-> modal.selectedBaseBranch,
                    objectId |-> modal.selectedBaseObjectId] \in refs

\* C28: when handleCreate has returned and the dialog is still open, the
\* creating flag is false again.
C28_CreatingClearedOnReturn ==
    (flow.pc = "done" /\ ~flow.closed) => ~modal.creating

\* the step is an edit of the name field
UserEdit ==
    \E typed \in UserNames :
        modal' = Dispatch(modal, [type |-> "SET_BRANCH_NAME", payload |-> typed])

\* C29: once the name was edited by the user, every step that is not a
\* further edit leaves branchName as it is and manualOverride true.
C29_ManualNameKept ==
    [][(modal.manualOverride /\ ~UserEdit) =>
           (modal'.branchName = modal.branchName /\ modal'.manualOverride)]_vars

=============================================================================
